---- MODULE Spec2Model ----
(***************************************************************************)
(* Model of the zoom state machine of obs-zoom-to-mouse                    *)
(* (src/zoom_core/zoom_controller.py) with the easing helpers it uses      *)
(* (src/zoom_core/easing.py).                                              *)
(*                                                                         *)
(* Numbers.  Python floats appear in two roles:                            *)
(*  - _animation_progress is accumulated with += and compared with 1.0;    *)
(*    whether the comparison succeeds depends on binary64 rounding, so the *)
(*    progress is modelled as an IEEE-754 binary64 value: a little-endian  *)
(*    sequence of NLimbs limbs in base LimbBase, counting units of 2^-60,  *)
(*    with round-to-nearest-even after every addition (DblAdd).            *)
(*  - rectangle coordinates and eased times are modelled in fixed point:   *)
(*    an integer n stands for n / FU.  Products and quotients are rounded  *)
(*    to the nearest unit (the float code rounds to the nearest binary64). *)
(***************************************************************************)
EXTENDS Integers, Naturals, Sequences, FiniteSets, TLC

\* ------------------------------------------------------------------ bounds
\* zoom_speed ranges over 1/k, k in 1..MaxK
MaxK == 6

\* update ticks followed after a zoom-in in the gradual chase
MaxChase == 4

\* ------------------------------------------------------- fixed-point reals
\* units per 1.0: hundredths (follow_border * 0.01) split in six, so that
\* halves, thirds, quarters, fifths and sixths of 1.0 are whole units
FU == 6 * 100

Abs(x) == IF x < 0 THEN -x ELSE x

\* nearest integer to a / b, b > 0 (halves go up)
RoundDiv(a, b) == (2 * a + b) \div (2 * b)

\* product and quotient of two fixed-point numbers
FMul(a, b) == RoundDiv(a * b, FU)
FDiv(a, b) == RoundDiv(a * FU, b)

\* the element of a one-element set: TheOne({e(x) : x \in {v}}) is e(v) with v
\* computed once
TheOne(S) == CHOOSE x \in S : TRUE

Min2(a, b) == IF b < a THEN b ELSE a
Max2(a, b) == IF b > a THEN b ELSE a

\* --------------------------------------------------------------- binary64
\* limbs of 15 bits: four for the fraction (60 bits) and one for the integer part
LimbBase == 32 * 1024
NLimbs == 4 + 1
Limbs == 1..NLimbs

DblZero == [i \in Limbs |-> 0]
DblOne == [i \in Limbs |-> IF i = NLimbs THEN 1 ELSE 0]

\* a >= 1.0
DblGeOne(a) == a[NLimbs] >= 1

\* number of bits of a natural below 2 * LimbBase
BitLen(n) == IF n = 0 THEN 0 ELSE CHOOSE k \in 1..16 : 2^(k - 1) <= n /\ n < 2^k

\* index of the highest non-zero limb (0 for zero)
TopLimb(a) == IF \E i \in Limbs : a[i] # 0
              THEN CHOOSE i \in Limbs : a[i] # 0 /\ \A j \in Limbs : j > i => a[j] = 0
              ELSE 0

\* number of significant bits of the exact value
DblBits(a) == IF TopLimb(a) = 0 THEN 0
              ELSE 15 * (TopLimb(a) - 1) + BitLen(a[TopLimb(a)])

\* exact sum of two limb sequences (carry chain)
DblAddExact(a, b) ==
    LET c[i \in 0..NLimbs] == IF i = 0 THEN 0 ELSE (a[i] + b[i] + c[i - 1]) \div LimbBase
    IN  [i \in Limbs |-> (a[i] + b[i] + c[i - 1]) % LimbBase]

\* round the exact value v to 53 significant bits, nearest, ties to even.
\* sticky: a non-zero remainder below the last unit of v.
\* The values of the model need at most 30 bits dropped (limbs 1 and 2); q is
\* the number of bits dropped and step = 2^q.
DblRoundAt(v, sticky, q, step) ==
    LET low2 == v[2] * LimbBase + v[1]
        low == low2 % step
        half == step \div 2
        evenBit == IF q = 30 THEN v[3] % 2 ELSE (low2 \div step) % 2
        up == IF q = 0 THEN FALSE
              ELSE \/ low > half
                   \/ low = half /\ sticky
                   \/ low = half /\ ~sticky /\ evenBit = 1
        trunc == [v EXCEPT ![1] = (low2 - low) % LimbBase,
                           ![2] = (low2 - low) \div LimbBase]
        inc == [i \in Limbs |-> IF i = 1 THEN step % LimbBase
                                ELSE IF i = 2 THEN (step \div LimbBase) % LimbBase
                                ELSE IF i = 3 THEN step \div (LimbBase * LimbBase)
                                ELSE 0]
    IN  IF up THEN DblAddExact(trunc, inc) ELSE trunc

DblRound(exact, sticky) ==
    TheOne({TheOne({DblRoundAt(v, sticky, q, 2^q) : q \in {Max2(0, DblBits(v) - 53)}})
            : v \in {exact}})

\* a + b in binary64
DblAdd(a, b) == DblRound(DblAddExact(a, b), FALSE)

\* 1.0 / k in binary64, 1 <= k <= 128: long division of 2^60 by k, then rounding
DblInv(k) ==
    LET r[i \in 1..(NLimbs + 1)] ==
            IF i = NLimbs + 1 THEN 0 ELSE (r[i + 1] * LimbBase + DblOne[i]) % k
        quot == [i \in Limbs |-> (r[i + 1] * LimbBase + DblOne[i]) \div k]
    IN  DblRound(quot, r[1] # 0)

\* the fixed-point number nearest to a binary64 value below 2.0
DblToFix(a) ==
    ((a[NLimbs] * LimbBase + a[4]) * FU + (a[3] * FU) \div LimbBase + LimbBase \div 2)
        \div LimbBase

\* ------------------------------------------------------- signed binary64
\* the easing functions evaluated in binary64 at t = 0.0 and t = 1.0: a sign
\* and a magnitude in limbs.  At the two endpoints every product has an
\* integer factor and every power, square root and 2^x has an argument that
\* is 0 or +-1, which is all the operators below provide.
B64(n) == [neg |-> n < 0, mag |-> [i \in Limbs |-> IF i = NLimbs THEN Abs(n) ELSE 0]]

\* a <= b on magnitudes
DblLe(a, b) == \A i \in Limbs : a[i] > b[i] => \E j \in Limbs : j > i /\ a[j] < b[j]

\* exact difference of two magnitudes, a >= b (borrow chain)
DblSubExact(a, b) ==
    LET w[i \in 0..NLimbs] == IF i = 0 THEN 0
                              ELSE IF a[i] - b[i] - w[i - 1] < 0 THEN 1 ELSE 0
    IN  [i \in Limbs |-> (a[i] - b[i] - w[i - 1] + LimbBase) % LimbBase]

\* exact product of a magnitude and a small natural (carry chain)
DblMulExact(a, n) ==
    LET c[i \in 0..NLimbs] == IF i = 0 THEN 0 ELSE (a[i] * n + c[i - 1]) \div LimbBase
    IN  [i \in Limbs |-> (a[i] * n + c[i - 1]) % LimbBase]

\* a whole number
B64IsInt(a) == \A i \in Limbs : i < NLimbs => a.mag[i] = 0

B64IsZero(a) == a.mag = DblZero

B64Neg(a) == [a EXCEPT !.neg = ~a.neg]

\* a + b
B64Add(x, y) ==
    TheOne({
        IF a.neg = b.neg THEN [neg |-> a.neg, mag |-> DblAdd(a.mag, b.mag)]
        ELSE IF a.mag = b.mag THEN B64(0)
        ELSE IF DblLe(b.mag, a.mag)
        THEN [neg |-> a.neg, mag |-> DblRound(DblSubExact(a.mag, b.mag), FALSE)]
        ELSE [neg |-> b.neg, mag |-> DblRound(DblSubExact(b.mag, a.mag), FALSE)]
        : a \in {x}, b \in {y}})

\* a - b
B64Sub(a, b) == B64Add(a, B64Neg(b))

\* a * b, one of the two a whole number
B64Mul(x, y) ==
    TheOne({
        CASE B64IsInt(b) ->
                [neg |-> a.neg # b.neg,
                 mag |-> DblRound(DblMulExact(a.mag, b.mag[NLimbs]), FALSE)]
          [] B64IsInt(a) ->
                [neg |-> a.neg # b.neg,
                 mag |-> DblRound(DblMulExact(b.mag, a.mag[NLimbs]), FALSE)]
        : a \in {x}, b \in {y}})

\* a / 2, a whole and even or 1
B64Half(a) ==
    [neg |-> a.neg,
     mag |-> [i \in Limbs |->
                 a.mag[i] \div 2
                 + IF i < NLimbs THEN (a.mag[i + 1] % 2) * (LimbBase \div 2) ELSE 0]]

\* a < b
B64Lt(x, y) ==
    TheOne({
        CASE a.neg /\ ~b.neg -> ~(B64IsZero(a) /\ B64IsZero(b))
          [] ~a.neg /\ b.neg -> FALSE
          [] ~a.neg /\ ~b.neg -> a.mag # b.mag /\ DblLe(a.mag, b.mag)
          [] a.neg /\ b.neg -> a.mag # b.mag /\ DblLe(b.mag, a.mag)
        : a \in {x}, b \in {y}})

\* a == b (0.0 == -0.0)
B64Eq(a, b) == a.mag = b.mag /\ (a.neg = b.neg \/ B64IsZero(a))

\* pow(a, n), a whole and n in 2..3
B64Pow(a, n) ==
    CASE n = 2 -> B64Mul(a, a)
      [] n = 3 -> B64Mul(B64Mul(a, a), a)

\* math.sqrt(a), a in {0.0, 1.0}
B64Sqrt(a) == CASE B64Eq(a, B64(0)) \/ B64Eq(a, B64(1)) -> a

\* pow(2, a), a == 0.0
B64Exp2(a) == CASE B64IsZero(a) -> B64(1)

\* ----------------------------------------------------------------- easing
linear(t) == t

ease_in_quad(t) == FMul(t, t)

ease_out_quad(t) == FMul(t, 2 * FU - t)

ease_in_out_cubic(t) ==
    IF 2 * t < FU
    THEN 4 * FMul(FMul(t, t), t)
    ELSE LET u == 2 * FU - 2 * t
         IN  FU - RoundDiv(FMul(FMul(u, u), u), 2)

EasingNames == {"linear", "ease_in", "ease_out", "ease_in_out"}

\* variant of get_easing: a name that is not registered gets the profile's
\* default curve (ease_in_out) instead of linear
get_easing_default_curve(name, t) ==
    CASE name = "linear" -> linear(t)
      [] name = "ease_in" -> ease_in_quad(t)
      [] name = "ease_out" -> ease_out_quad(t)
      [] name = "ease_in_out" -> ease_in_out_cubic(t)
      [] OTHER -> ease_in_out_cubic(t)

\* get_easing(name)(t)
get_easing(name, t) ==
    CASE name = "linear" -> linear(t)
      [] name = "ease_in" -> ease_in_quad(t)
      [] name = "ease_out" -> ease_out_quad(t)
      [] name = "ease_in_out" -> ease_in_out_cubic(t)
      [] OTHER -> linear(t)

lerp(start, end, t) == start + FMul(end - start, t)

clamp(value, min_val, max_val) == Max2(min_val, Min2(max_val, value))

\* -------------------------------------------------- easing, in binary64
\* the functions of easing.py as Python computes them, for t = 0.0 and 1.0
Half64 == B64Half(B64(1))

linear64(t) == t

ease_in_quad64(t) == B64Mul(t, t)

ease_out_quad64(t) == B64Mul(t, B64Sub(B64(2), t))

ease_in_out_quad64(t) ==
    IF B64Lt(t, Half64)
    THEN B64Mul(B64Mul(B64(2), t), t)
    ELSE B64Add(B64(-1), B64Mul(B64Sub(B64(4), B64Mul(B64(2), t)), t))

ease_in_cubic64(t) == B64Mul(B64Mul(t, t), t)

ease_out_cubic64(t) ==
    LET u == B64Sub(t, B64(1))
    IN  B64Add(B64Mul(B64Mul(u, u), u), B64(1))

ease_in_out_cubic64(t) ==
    IF B64Lt(t, Half64)
    THEN B64Mul(B64Mul(B64Mul(B64(4), t), t), t)
    ELSE B64Sub(B64(1), B64Half(B64Pow(B64Add(B64Mul(B64(-2), t), B64(2)), 3)))

ease_in_quart64(t) == B64Mul(B64Mul(B64Mul(t, t), t), t)

ease_out_quart64(t) ==
    LET u == B64Sub(t, B64(1))
    IN  B64Sub(B64(1), B64Mul(B64Mul(B64Mul(u, u), u), u))

ease_in_out_quart64(t) ==
    IF B64Lt(t, Half64)
    THEN B64Mul(B64Mul(B64Mul(B64Mul(B64(8), t), t), t), t)
    ELSE LET u == B64Sub(t, B64(1))
         IN  B64Sub(B64(1), B64Mul(B64Mul(B64Mul(B64Mul(B64(8), u), u), u), u))

ease_in_quint64(t) == B64Mul(B64Mul(B64Mul(B64Mul(t, t), t), t), t)

ease_out_quint64(t) ==
    LET u == B64Sub(t, B64(1))
    IN  B64Add(B64(1), B64Mul(B64Mul(B64Mul(B64Mul(u, u), u), u), u))

ease_in_out_quint64(t) ==
    IF B64Lt(t, Half64)
    THEN B64Mul(B64Mul(B64Mul(B64Mul(B64Mul(B64(16), t), t), t), t), t)
    ELSE LET u == B64Sub(t, B64(1))
         IN  B64Add(B64(1),
                    B64Mul(B64Mul(B64Mul(B64Mul(B64Mul(B64(16), u), u), u), u), u))

ease_in_expo64(t) ==
    IF B64Eq(t, B64(0)) THEN B64(0)
    ELSE B64Exp2(B64Mul(B64(10), B64Sub(t, B64(1))))

ease_out_expo64(t) ==
    IF B64Eq(t, B64(1)) THEN B64(1)
    ELSE B64Sub(B64(1), B64Exp2(B64Mul(B64(-10), t)))

ease_in_out_expo64(t) ==
    IF B64Eq(t, B64(0)) THEN B64(0)
    ELSE IF B64Eq(t, B64(1)) THEN B64(1)
    ELSE IF B64Lt(t, Half64)
    THEN B64Half(B64Exp2(B64Sub(B64Mul(B64(20), t), B64(10))))
    ELSE B64Half(B64Sub(B64(2), B64Exp2(B64Add(B64Mul(B64(-20), t), B64(10)))))

ease_in_circ64(t) == B64Sub(B64(1), B64Sqrt(B64Sub(B64(1), B64Mul(t, t))))

ease_out_circ64(t) ==
    LET u == B64Sub(t, B64(1))
    IN  B64Sqrt(B64Sub(B64(1), B64Mul(u, u)))

ease_in_out_circ64(t) ==
    IF B64Lt(t, Half64)
    THEN B64Half(B64Sub(B64(1),
                        B64Sqrt(B64Sub(B64(1), B64Pow(B64Mul(B64(2), t), 2)))))
    ELSE B64Half(B64Add(B64Sqrt(B64Sub(B64(1),
                                       B64Pow(B64Add(B64Mul(B64(-2), t), B64(2)), 2))),
                        B64(1)))

\* c1 = 1.70158 as a binary64 value
back_c1 == [neg |-> FALSE, mag |-> <<24832, 28898, 12236, 22989, 1>>]

\* c3 = c1 + 1
back_c3 == B64Add(back_c1, B64(1))

\* c2 = c1 * 1.525 as a binary64 value
back_c2 == [neg |-> FALSE, mag |-> <<0, 21133, 32587, 19493, 2>>]

ease_in_back64(t) ==
    B64Sub(B64Mul(B64Mul(B64Mul(back_c3, t), t), t), B64Mul(B64Mul(back_c1, t), t))

ease_out_back64(t) ==
    B64Add(B64Add(B64(1), B64Mul(back_c3, B64Pow(B64Sub(t, B64(1)), 3))),
           B64Mul(back_c1, B64Pow(B64Sub(t, B64(1)), 2)))

ease_in_out_back64(t) ==
    IF B64Lt(t, Half64)
    THEN B64Half(B64Mul(B64Pow(B64Mul(B64(2), t), 2),
                        B64Sub(B64Mul(B64Mul(B64Add(back_c2, B64(1)), B64(2)), t),
                               back_c2)))
    ELSE B64Half(B64Add(B64Mul(B64Pow(B64Sub(B64Mul(B64(2), t), B64(2)), 2),
                               B64Add(B64Mul(B64Add(back_c2, B64(1)),
                                             B64Sub(B64Mul(t, B64(2)), B64(2))),
                                      back_c2)),
                        B64(2)))

\* elastic, ease_in_elastic, ease_in_out_elastic: the endpoints are returned
\* as they are (any other t goes through math.sin)
elastic64(t) == CASE B64Eq(t, B64(0)) \/ B64Eq(t, B64(1)) -> t

ease_in_elastic64(t) == CASE B64Eq(t, B64(0)) \/ B64Eq(t, B64(1)) -> t

ease_out_elastic64(t) == elastic64(t)

ease_in_out_elastic64(t) == CASE B64Eq(t, B64(0)) \/ B64Eq(t, B64(1)) -> t

\* the names of EASING_FUNCTIONS
RegisteredNames ==
    {"linear", "ease_in", "ease_out", "ease_in_out",
     "ease_in_quad", "ease_out_quad", "ease_in_out_quad",
     "ease_in_cubic", "ease_out_cubic", "ease_in_out_cubic",
     "ease_in_quart", "ease_out_quart", "ease_in_out_quart",
     "ease_in_quint", "ease_out_quint", "ease_in_out_quint",
     "ease_in_sine", "ease_out_sine", "ease_in_out_sine",
     "ease_in_expo", "ease_out_expo", "ease_in_out_expo",
     "ease_in_circ", "ease_out_circ", "ease_in_out_circ",
     "ease_in_back", "ease_out_back", "ease_in_out_back",
     "elastic", "ease_in_elastic", "ease_out_elastic", "ease_in_out_elastic",
     "bounce", "bounce_in", "bounce_out", "ease_in_out_bounce"}

\* the sine forms call math.cos and math.sin on multiples of math.pi and the
\* bounce forms multiply and divide fractions; neither is computed here
LibmNames ==
    {"ease_in_sine", "ease_out_sine", "ease_in_out_sine",
     "bounce", "bounce_in", "bounce_out", "ease_in_out_bounce"}

\* get_easing(name)(t) in binary64
get_easing64(name, t) ==
    CASE name = "linear" -> linear64(t)
      [] name = "ease_in" -> ease_in_quad64(t)
      [] name = "ease_out" -> ease_out_quad64(t)
      [] name = "ease_in_out" -> ease_in_out_cubic64(t)
      [] name = "ease_in_quad" -> ease_in_quad64(t)
      [] name = "ease_out_quad" -> ease_out_quad64(t)
      [] name = "ease_in_out_quad" -> ease_in_out_quad64(t)
      [] name = "ease_in_cubic" -> ease_in_cubic64(t)
      [] name = "ease_out_cubic" -> ease_out_cubic64(t)
      [] name = "ease_in_out_cubic" -> ease_in_out_cubic64(t)
      [] name = "ease_in_quart" -> ease_in_quart64(t)
      [] name = "ease_out_quart" -> ease_out_quart64(t)
      [] name = "ease_in_out_quart" -> ease_in_out_quart64(t)
      [] name = "ease_in_quint" -> ease_in_quint64(t)
      [] name = "ease_out_quint" -> ease_out_quint64(t)
      [] name = "ease_in_out_quint" -> ease_in_out_quint64(t)
      [] name = "ease_in_expo" -> ease_in_expo64(t)
      [] name = "ease_out_expo" -> ease_out_expo64(t)
      [] name = "ease_in_out_expo" -> ease_in_out_expo64(t)
      [] name = "ease_in_circ" -> ease_in_circ64(t)
      [] name = "ease_out_circ" -> ease_out_circ64(t)
      [] name = "ease_in_out_circ" -> ease_in_out_circ64(t)
      [] name = "ease_in_back" -> ease_in_back64(t)
      [] name = "ease_out_back" -> ease_out_back64(t)
      [] name = "ease_in_out_back" -> ease_in_out_back64(t)
      [] name = "elastic" -> elastic64(t)
      [] name = "ease_in_elastic" -> ease_in_elastic64(t)
      [] name = "ease_out_elastic" -> ease_out_elastic64(t)
      [] name = "ease_in_out_elastic" -> ease_in_out_elastic64(t)
      [] name \notin RegisteredNames -> linear64(t)

\* lerp and lerp_eased in binary64
lerp64(start, end, t) == B64Add(start, B64Mul(B64Sub(end, start), t))

lerp_eased64(start, end, t, easing) == lerp64(start, end, get_easing64(easing, t))

\* ------------------------------------------------------------ data model
IDLE == "IDLE"
ZOOMING_IN == "ZOOMING_IN"
ZOOMED == "ZOOMED"
FOLLOWING == "FOLLOWING"
ZOOMING_OUT == "ZOOMING_OUT"
ZoomState == {IDLE, ZOOMING_IN, ZOOMED, FOLLOWING, ZOOMING_OUT}

\* Python's None (Optional[Tuple[float, float]])
None == <<>>

CropRect(x, y, width, height) == [x |-> x, y |-> y, width |-> width, height |-> height]

\* SourceInfo of a width x height source (pixels) without extra crop, scale or offset
SourceInfo(width, height) ==
    [width |-> width, height |-> height,
     crop_left |-> 0, crop_top |-> 0, crop_right |-> 0, crop_bottom |-> 0,
     scale_x |-> FU, scale_y |-> FU, display_x |-> 0, display_y |-> 0]

\* ZoomProfile with its default field values; zoom_speed = 1/k as a binary64,
\* the other reals in fixed point
ZoomProfile(k, easing, auto_follow, follow_speed, follow_safezone_sensitivity, follow_outside_bounds, auto_lock_on_reverse) ==
    [zoom_factor |-> 2 * FU,
     zoom_speed |-> DblInv(k),
     follow_speed |-> follow_speed,
     follow_border |-> 8,
     follow_safezone_sensitivity |-> follow_safezone_sensitivity,
     easing |-> easing,
     auto_follow |-> auto_follow,
     follow_outside_bounds |-> follow_outside_bounds,
     auto_lock_on_reverse |-> auto_lock_on_reverse]

\* ZoomController.__init__ followed by the host's set_source_info
NewController(profile, width, height) ==
    [profile |-> profile,
     state |-> IDLE,
     source_info |-> SourceInfo(width, height),
     crop_current |-> CropRect(0, 0, width * FU, height * FU),
     crop_target |-> CropRect(0, 0, 0, 0),
     crop_original |-> CropRect(0, 0, width * FU, height * FU),
     animation_progress |-> DblZero,
     is_following |-> FALSE,
     locked_center |-> None,
     locked_last_pos |-> None,
     locked_last_diff |-> None]

\* ------------------------------------------------------- crop geometry
\* variant of _transform_mouse: the scale is applied to the screen position
\* before the display's origin is taken off
transform_mouse_scale_first(c, mouse_x, mouse_y) ==
    <<mouse_x * c.source_info.scale_x - c.source_info.display_x * FU
          - c.source_info.crop_left * FU,
      mouse_y * c.source_info.scale_y - c.source_info.display_y * FU
          - c.source_info.crop_top * FU>>

\* _transform_mouse: screen pixels (integers) to source coordinates (fixed point)
transform_mouse(c, mouse_x, mouse_y) ==
    <<(mouse_x - c.source_info.display_x) * c.source_info.scale_x
          - c.source_info.crop_left * FU,
      (mouse_y - c.source_info.display_y) * c.source_info.scale_y
          - c.source_info.crop_top * FU>>

\* variant of _calculate_target_crop: the rectangle is not clamped to the source
calculate_target_crop_unclamped(c, mouse_x, mouse_y) ==
    LET src == transform_mouse(c, mouse_x, mouse_y)
        zoom == c.profile.zoom_factor
        new_width == FDiv(c.source_info.width * FU, zoom)
        new_height == FDiv(c.source_info.height * FU, zoom)
        target_x == src[1] - RoundDiv(new_width, 2)
        target_y == src[2] - RoundDiv(new_height, 2)
    IN  CropRect(target_x, target_y, new_width, new_height)

\* variant of _calculate_target_crop: the mouse point is the rectangle's
\* top-left corner instead of its centre
calculate_target_crop_corner(c, mouse_x, mouse_y) ==
    LET src == transform_mouse(c, mouse_x, mouse_y)
        zoom == c.profile.zoom_factor
        new_width == FDiv(c.source_info.width * FU, zoom)
        new_height == FDiv(c.source_info.height * FU, zoom)
        max_x == c.source_info.width * FU - new_width
        max_y == c.source_info.height * FU - new_height
    IN  CropRect(clamp(src[1], 0, max_x), clamp(src[2], 0, max_y),
                 new_width, new_height)

\* _calculate_target_crop
calculate_target_crop(c, mouse_x, mouse_y) ==
    LET src == transform_mouse(c, mouse_x, mouse_y)
        zoom == c.profile.zoom_factor
        new_width == FDiv(c.source_info.width * FU, zoom)
        new_height == FDiv(c.source_info.height * FU, zoom)
        target_x == src[1] - RoundDiv(new_width, 2)
        target_y == src[2] - RoundDiv(new_height, 2)
        max_x == c.source_info.width * FU - new_width
        max_y == c.source_info.height * FU - new_height
    IN  CropRect(clamp(target_x, 0, max_x), clamp(target_y, 0, max_y),
                 new_width, new_height)

\* the field-wise interpolation used by both animations
LerpRect(from, to, t) ==
    CropRect(lerp(from.x, to.x, t), lerp(from.y, to.y, t),
             lerp(from.width, to.width, t), lerp(from.height, to.height, t))

\* centre of a rectangle, as stored in _locked_center
Center(r) == <<r.x + RoundDiv(r.width, 2), r.y + RoundDiv(r.height, 2)>>

\* --------------------------------------------------------- operations
\* variant of toggle_zoom: the animation progress is not restarted
toggle_zoom_keeps_progress(c, mouse_x, mouse_y) ==
    IF c.state = IDLE
    THEN [c EXCEPT !.crop_target = calculate_target_crop(c, mouse_x, mouse_y),
                   !.state = ZOOMING_IN,
                   !.locked_center = None,
                   !.locked_last_pos = None]
    ELSE IF c.state \in {ZOOMED, FOLLOWING}
    THEN [c EXCEPT !.crop_target = c.crop_original,
                   !.animation_progress = DblZero,
                   !.state = ZOOMING_OUT,
                   !.is_following = FALSE,
                   !.locked_center = None]
    ELSE c

\* variant of toggle_zoom: zooming out leaves the following flag set
toggle_zoom_keeps_following(c, mouse_x, mouse_y) ==
    IF c.state = IDLE
    THEN [c EXCEPT !.crop_target = calculate_target_crop(c, mouse_x, mouse_y),
                   !.animation_progress = DblZero,
                   !.state = ZOOMING_IN,
                   !.locked_center = None,
                   !.locked_last_pos = None]
    ELSE IF c.state \in {ZOOMED, FOLLOWING}
    THEN [c EXCEPT !.crop_target = c.crop_original,
                   !.animation_progress = DblZero,
                   !.state = ZOOMING_OUT,
                   !.locked_center = None]
    ELSE c

\* variant of toggle_zoom: a zoom-in in flight can be turned into a zoom-out
toggle_zoom_redirects(c, mouse_x, mouse_y) ==
    IF c.state = IDLE
    THEN [c EXCEPT !.crop_target = calculate_target_crop(c, mouse_x, mouse_y),
                   !.animation_progress = DblZero,
                   !.state = ZOOMING_IN,
                   !.locked_center = None,
                   !.locked_last_pos = None]
    ELSE IF c.state \in {ZOOMED, FOLLOWING, ZOOMING_IN}
    THEN [c EXCEPT !.crop_target = c.crop_original,
                   !.animation_progress = DblZero,
                   !.state = ZOOMING_OUT,
                   !.is_following = FALSE,
                   !.locked_center = None]
    ELSE c

toggle_zoom(c, mouse_x, mouse_y) ==
    IF c.state = IDLE
    THEN [c EXCEPT !.crop_target = calculate_target_crop(c, mouse_x, mouse_y),
                   !.animation_progress = DblZero,
                   !.state = ZOOMING_IN,
                   !.locked_center = None,
                   !.locked_last_pos = None]
    ELSE IF c.state \in {ZOOMED, FOLLOWING}
    THEN [c EXCEPT !.crop_target = c.crop_original,
                   !.animation_progress = DblZero,
                   !.state = ZOOMING_OUT,
                   !.is_following = FALSE,
                   !.locked_center = None]
    ELSE c

\* variant of toggle_follow: no check of the state
toggle_follow_unguarded(c) ==
    [c EXCEPT !.is_following = ~c.is_following,
              !.state = IF ~c.is_following THEN FOLLOWING ELSE ZOOMED]

toggle_follow(c) ==
    IF c.state \in {ZOOMED, FOLLOWING}
    THEN [c EXCEPT !.is_following = ~c.is_following,
                   !.state = IF ~c.is_following THEN FOLLOWING ELSE ZOOMED]
    ELSE c

\* variant of _update_zoom_in: the target is never recomputed
update_zoom_in_keeps_target(c, mouse_x, mouse_y) ==
    LET progress == DblAdd(c.animation_progress, c.profile.zoom_speed)
    IN  IF DblGeOne(progress)
        THEN [c |-> [c EXCEPT !.animation_progress = DblOne,
                              !.crop_current = c.crop_target,
                              !.is_following = IF c.profile.auto_follow THEN TRUE
                                               ELSE c.is_following,
                              !.state = IF c.profile.auto_follow THEN FOLLOWING
                                        ELSE ZOOMED,
                              !.locked_center = IF c.profile.auto_follow
                                                THEN Center(c.crop_target)
                                                ELSE c.locked_center],
              changed |-> TRUE]
        ELSE LET target == c.crop_target
                 t == get_easing(c.profile.easing, DblToFix(progress))
             IN  [c |-> [c EXCEPT !.animation_progress = progress,
                                  !.crop_target = target,
                                  !.crop_current = LerpRect(c.crop_original, target, t)],
                  changed |-> TRUE]

\* variant of _update_zoom_in: each tick interpolates from the current rectangle
update_zoom_in_from_current(c, mouse_x, mouse_y) ==
    LET progress == DblAdd(c.animation_progress, c.profile.zoom_speed)
    IN  IF DblGeOne(progress)
        THEN [c |-> [c EXCEPT !.animation_progress = DblOne,
                              !.crop_current = c.crop_target,
                              !.is_following = IF c.profile.auto_follow THEN TRUE
                                               ELSE c.is_following,
                              !.state = IF c.profile.auto_follow THEN FOLLOWING
                                        ELSE ZOOMED,
                              !.locked_center = IF c.profile.auto_follow
                                                THEN Center(c.crop_target)
                                                ELSE c.locked_center],
              changed |-> TRUE]
        ELSE LET target == IF c.profile.auto_follow
                           THEN calculate_target_crop(c, mouse_x, mouse_y)
                           ELSE c.crop_target
                 t == get_easing(c.profile.easing, DblToFix(progress))
             IN  [c |-> [c EXCEPT !.animation_progress = progress,
                                  !.crop_target = target,
                                  !.crop_current = LerpRect(c.crop_current, target, t)],
                  changed |-> TRUE]

\* variant of _update_zoom_in: completion tested with > instead of >=
update_zoom_in_strict(c, mouse_x, mouse_y) ==
    LET progress == DblAdd(c.animation_progress, c.profile.zoom_speed)
    IN  IF DblGeOne(progress) /\ progress # DblOne
        THEN [c |-> [c EXCEPT !.animation_progress = DblOne,
                              !.crop_current = c.crop_target,
                              !.is_following = IF c.profile.auto_follow THEN TRUE
                                               ELSE c.is_following,
                              !.state = IF c.profile.auto_follow THEN FOLLOWING
                                        ELSE ZOOMED,
                              !.locked_center = IF c.profile.auto_follow
                                                THEN Center(c.crop_target)
                                                ELSE c.locked_center],
              changed |-> TRUE]
        ELSE LET target == IF c.profile.auto_follow
                           THEN calculate_target_crop(c, mouse_x, mouse_y)
                           ELSE c.crop_target
                 t == get_easing(c.profile.easing, DblToFix(progress))
             IN  [c |-> [c EXCEPT !.animation_progress = progress,
                                  !.crop_target = target,
                                  !.crop_current = LerpRect(c.crop_original, target, t)],
                  changed |-> TRUE]

\* variant of _update_zoom_in: the locked centre is the rectangle's corner
update_zoom_in_corner(c, mouse_x, mouse_y) ==
    LET progress == DblAdd(c.animation_progress, c.profile.zoom_speed)
    IN  IF DblGeOne(progress)
        THEN [c |-> [c EXCEPT !.animation_progress = DblOne,
                              !.crop_current = c.crop_target,
                              !.is_following = IF c.profile.auto_follow THEN TRUE
                                               ELSE c.is_following,
                              !.state = IF c.profile.auto_follow THEN FOLLOWING
                                        ELSE ZOOMED,
                              !.locked_center = IF c.profile.auto_follow
                                                THEN <<c.crop_target.x, c.crop_target.y>>
                                                ELSE c.locked_center],
              changed |-> TRUE]
        ELSE LET target == IF c.profile.auto_follow
                           THEN calculate_target_crop(c, mouse_x, mouse_y)
                           ELSE c.crop_target
                 t == get_easing(c.profile.easing, DblToFix(progress))
             IN  [c |-> [c EXCEPT !.animation_progress = progress,
                                  !.crop_target = target,
                                  !.crop_current = LerpRect(c.crop_original, target, t)],
                  changed |-> TRUE]

\* _update_zoom_in; returns the controller and the "changed" flag
update_zoom_in(c, mouse_x, mouse_y) ==
    TheOne({
        IF DblGeOne(progress)
        THEN [c |-> [c EXCEPT !.animation_progress = DblOne,
                              !.crop_current = c.crop_target,
                              !.is_following = IF c.profile.auto_follow THEN TRUE
                                               ELSE c.is_following,
                              !.state = IF c.profile.auto_follow THEN FOLLOWING
                                        ELSE ZOOMED,
                              !.locked_center = IF c.profile.auto_follow
                                                THEN Center(c.crop_target)
                                                ELSE c.locked_center],
              changed |-> TRUE]
        ELSE LET target == IF c.profile.auto_follow
                           THEN calculate_target_crop(c, mouse_x, mouse_y)
                           ELSE c.crop_target
                 t == get_easing(c.profile.easing, DblToFix(progress))
             IN  [c |-> [c EXCEPT !.animation_progress = progress,
                                  !.crop_target = target,
                                  !.crop_current = LerpRect(c.crop_original, target, t)],
                  changed |-> TRUE]
        : progress \in {DblAdd(c.animation_progress, c.profile.zoom_speed)}})

\* variant of _update_zoom_out: the final tick does not snap to the original
update_zoom_out_no_snap(c) ==
    LET progress == DblAdd(c.animation_progress, c.profile.zoom_speed)
    IN  IF DblGeOne(progress)
        THEN [c |-> [c EXCEPT !.animation_progress = DblOne,
                              !.state = IDLE],
              changed |-> TRUE]
        ELSE LET t == get_easing(c.profile.easing, DblToFix(progress))
             IN  [c |-> [c EXCEPT !.animation_progress = progress,
                                  !.crop_current =
                                      LerpRect(c.crop_target, c.crop_original, t)],
                  changed |-> TRUE]

\* variant of _update_zoom_out: progress is assigned the speed, not advanced
update_zoom_out_restarts(c) ==
    TheOne({
        IF DblGeOne(progress)
        THEN [c |-> [c EXCEPT !.animation_progress = DblOne,
                              !.crop_current = c.crop_original,
                              !.state = IDLE],
              changed |-> TRUE]
        ELSE LET t == get_easing(c.profile.easing, DblToFix(progress))
             IN  [c |-> [c EXCEPT !.animation_progress = progress,
                                  !.crop_current =
                                      LerpRect(c.crop_target, c.crop_original, t)],
                  changed |-> TRUE]
        : progress \in {c.profile.zoom_speed}})

\* _update_zoom_out (start_x of lines 362-364 is computed and never used)
update_zoom_out(c) ==
    TheOne({
        IF DblGeOne(progress)
        THEN [c |-> [c EXCEPT !.animation_progress = DblOne,
                              !.crop_current = c.crop_original,
                              !.state = IDLE],
              changed |-> TRUE]
        ELSE LET t == get_easing(c.profile.easing, DblToFix(progress))
             IN  [c |-> [c EXCEPT !.animation_progress = progress,
                                  !.crop_current =
                                      LerpRect(c.crop_target, c.crop_original, t)],
                  changed |-> TRUE]
        : progress \in {DblAdd(c.animation_progress, c.profile.zoom_speed)}})

\* 0.01 as a binary64 value
cent64 == [neg |-> FALSE, mag |-> <<10486, 7864, 22282, 327, 0>>]

\* border_x, border_y of _update_following in binary64, the target's extent
\* a whole number of pixels: extent * (0.5 - follow_border * 0.01)
border64(extent, follow_border) ==
    B64Mul(B64(extent), B64Sub(Half64, B64Mul(B64(follow_border), cent64)))

\* variant of the auto-lock: re-locking leaves locked_last_pos as it was
follow_chase_lock_keeps_pos(c, target, src) ==
    LET speed == c.profile.follow_speed
        moves == \/ Abs(target.x - c.crop_current.x) > FU \div 2
                 \/ Abs(target.y - c.crop_current.y) > FU \div 2
        cur == IF moves
               THEN [c.crop_current EXCEPT !.x = lerp(c.crop_current.x, target.x, speed),
                                           !.y = lerp(c.crop_current.y, target.y, speed)]
               ELSE c.crop_current
        c2 == [c EXCEPT !.crop_current = cur]
        \* auto-lock
        sensitivity == c.profile.follow_safezone_sensitivity * FU
        rem_x == Abs(cur.x - target.x)
        rem_y == Abs(cur.y - target.y)
        auto_diff == <<src[1] - c2.locked_last_pos[1], src[2] - c2.locked_last_pos[2]>>
        last_diff == c2.locked_last_diff
        should_lock ==
            /\ c.profile.auto_lock_on_reverse
            /\ last_diff # None
            /\ IF Abs(last_diff[1]) > Abs(last_diff[2])
               THEN \/ auto_diff[1] < 0 /\ last_diff[1] > 0
                    \/ auto_diff[1] > 0 /\ last_diff[1] < 0
               ELSE \/ auto_diff[2] < 0 /\ last_diff[2] > 0
                    \/ auto_diff[2] > 0 /\ last_diff[2] < 0
        relock == /\ c2.locked_last_pos # None
                  /\ (should_lock \/ (rem_x <= sensitivity /\ rem_y <= sensitivity))
        c3 == IF relock
              THEN [c2 EXCEPT !.locked_center = Center(cur)]
              ELSE c2
        c4 == IF c3.locked_last_pos # None THEN [c3 EXCEPT !.locked_last_pos = src] ELSE c3
    IN  [c |-> c4, changed |-> moves]

\* variant of the auto-lock: a position close to the target locks whether or
\* not the dead-zone was left before
follow_chase_locks_unasked(c, target, src) ==
    LET speed == c.profile.follow_speed
        moves == \/ Abs(target.x - c.crop_current.x) > FU \div 2
                 \/ Abs(target.y - c.crop_current.y) > FU \div 2
        cur == IF moves
               THEN [c.crop_current EXCEPT !.x = lerp(c.crop_current.x, target.x, speed),
                                           !.y = lerp(c.crop_current.y, target.y, speed)]
               ELSE c.crop_current
        c2 == [c EXCEPT !.crop_current = cur]
        \* auto-lock
        sensitivity == c.profile.follow_safezone_sensitivity * FU
        rem_x == Abs(cur.x - target.x)
        rem_y == Abs(cur.y - target.y)
        auto_diff == <<src[1] - c2.locked_last_pos[1], src[2] - c2.locked_last_pos[2]>>
        last_diff == c2.locked_last_diff
        should_lock ==
            /\ c.profile.auto_lock_on_reverse
            /\ last_diff # None
            /\ IF Abs(last_diff[1]) > Abs(last_diff[2])
               THEN \/ auto_diff[1] < 0 /\ last_diff[1] > 0
                    \/ auto_diff[1] > 0 /\ last_diff[1] < 0
               ELSE \/ auto_diff[2] < 0 /\ last_diff[2] > 0
                    \/ auto_diff[2] > 0 /\ last_diff[2] < 0
        relock == rem_x <= sensitivity /\ rem_y <= sensitivity
        c3 == IF relock
              THEN [c2 EXCEPT !.locked_center = Center(cur), !.locked_last_pos = None]
              ELSE c2
        c4 == IF c3.locked_last_pos # None THEN [c3 EXCEPT !.locked_last_pos = src] ELSE c3
    IN  [c |-> c4, changed |-> moves]

\* abs(d) > border for a difference d and a target extent in fixed point.
\* The exact product decides unless d sits on it; there (whole pixels) the
\* rounding of the binary64 border decides.
beyond_border(d, extent, follow_border) ==
    \/ 100 * Abs(d) > extent * (50 - follow_border)
    \/ /\ 100 * Abs(d) = extent * (50 - follow_border)
       /\ d % FU = 0
       /\ extent % FU = 0
       /\ B64Lt(border64(extent \div FU, follow_border), B64(Abs(d) \div FU))
\* the rest of _update_following once the centre is not locked: the
\* interpolation step and the auto-lock
follow_chase(c, target, src) ==
    LET speed == c.profile.follow_speed
        moves == \/ Abs(target.x - c.crop_current.x) > FU \div 2
                 \/ Abs(target.y - c.crop_current.y) > FU \div 2
        cur == IF moves
               THEN [c.crop_current EXCEPT !.x = lerp(c.crop_current.x, target.x, speed),
                                           !.y = lerp(c.crop_current.y, target.y, speed)]
               ELSE c.crop_current
        c2 == [c EXCEPT !.crop_current = cur]
        \* auto-lock
        sensitivity == c.profile.follow_safezone_sensitivity * FU
        rem_x == Abs(cur.x - target.x)
        rem_y == Abs(cur.y - target.y)
        auto_diff == <<src[1] - c2.locked_last_pos[1], src[2] - c2.locked_last_pos[2]>>
        last_diff == c2.locked_last_diff
        should_lock ==
            /\ c.profile.auto_lock_on_reverse
            /\ last_diff # None
            /\ IF Abs(last_diff[1]) > Abs(last_diff[2])
               THEN \/ auto_diff[1] < 0 /\ last_diff[1] > 0
                    \/ auto_diff[1] > 0 /\ last_diff[1] < 0
               ELSE \/ auto_diff[2] < 0 /\ last_diff[2] > 0
                    \/ auto_diff[2] > 0 /\ last_diff[2] < 0
        relock == /\ c2.locked_last_pos # None
                  /\ (should_lock \/ (rem_x <= sensitivity /\ rem_y <= sensitivity))
        c3 == IF relock
              THEN [c2 EXCEPT !.locked_center = Center(cur), !.locked_last_pos = None]
              ELSE c2
        c4 == IF c3.locked_last_pos # None THEN [c3 EXCEPT !.locked_last_pos = src] ELSE c3
    IN  [c |-> c4, changed |-> moves]

\* variant of _update_following: the cursor is followed outside the bounds too
update_following_no_bounds(c, mouse_x, mouse_y) ==
    LET target == calculate_target_crop(c, mouse_x, mouse_y)
        src == transform_mouse(c, mouse_x, mouse_y)
        \* locked centre (safe zone)
        diff == <<src[1] - c.locked_center[1], src[2] - c.locked_center[2]>>
        leaves == /\ c.locked_center # None
                  /\ \/ beyond_border(diff[1], target.width, c.profile.follow_border)
                     \/ beyond_border(diff[2], target.height, c.profile.follow_border)
        c1 == IF leaves
              THEN [c EXCEPT !.locked_center = None,
                             !.locked_last_pos = src,
                             !.locked_last_diff = diff]
              ELSE c
    IN  IF ~c.is_following THEN [c |-> c, changed |-> FALSE]
        ELSE IF c1.locked_center # None THEN [c |-> c1, changed |-> FALSE]
        ELSE follow_chase(c1, target, src)

\* variant of _update_following: on leaving the dead-zone the exit direction
\* is recorded as the source point itself
update_following_diff_from_origin(c, mouse_x, mouse_y) ==
    LET target == calculate_target_crop(c, mouse_x, mouse_y)
        src == transform_mouse(c, mouse_x, mouse_y)
        outside == \/ src[1] < target.x \/ src[1] > target.x + target.width
                   \/ src[2] < target.y \/ src[2] > target.y + target.height
        \* locked centre (safe zone)
        diff == <<src[1] - c.locked_center[1], src[2] - c.locked_center[2]>>
        leaves == /\ c.locked_center # None
                  /\ \/ beyond_border(diff[1], target.width, c.profile.follow_border)
                     \/ beyond_border(diff[2], target.height, c.profile.follow_border)
        c1 == IF leaves
              THEN [c EXCEPT !.locked_center = None,
                             !.locked_last_pos = src,
                             !.locked_last_diff = src]
              ELSE c
    IN  IF ~c.is_following THEN [c |-> c, changed |-> FALSE]
        ELSE IF ~c.profile.follow_outside_bounds /\ outside THEN [c |-> c, changed |-> FALSE]
        ELSE IF c1.locked_center # None THEN [c |-> c1, changed |-> FALSE]
        ELSE follow_chase(c1, target, src)

\* _update_following; returns the controller and the "changed" flag
update_following(c, mouse_x, mouse_y) ==
    LET target == calculate_target_crop(c, mouse_x, mouse_y)
        src == transform_mouse(c, mouse_x, mouse_y)
        outside == \/ src[1] < target.x \/ src[1] > target.x + target.width
                   \/ src[2] < target.y \/ src[2] > target.y + target.height
        \* locked centre (safe zone)
        diff == <<src[1] - c.locked_center[1], src[2] - c.locked_center[2]>>
        leaves == /\ c.locked_center # None
                  /\ \/ beyond_border(diff[1], target.width, c.profile.follow_border)
                     \/ beyond_border(diff[2], target.height, c.profile.follow_border)
        c1 == IF leaves
              THEN [c EXCEPT !.locked_center = None,
                             !.locked_last_pos = src,
                             !.locked_last_diff = diff]
              ELSE c
    IN  IF ~c.is_following THEN [c |-> c, changed |-> FALSE]
        ELSE IF ~c.profile.follow_outside_bounds /\ outside THEN [c |-> c, changed |-> FALSE]
        ELSE IF c1.locked_center # None THEN [c |-> c1, changed |-> FALSE]
        ELSE follow_chase(c1, target, src)

\* variant of update: a late frame (dt above one 60 fps frame) advances twice
update_dt_scaled(c, dt, mouse_x, mouse_y) ==
    LET Step(d) ==
            IF d.state = IDLE THEN [c |-> d, changed |-> FALSE]
            ELSE IF d.state = ZOOMING_IN THEN update_zoom_in(d, mouse_x, mouse_y)
            ELSE IF d.state = ZOOMING_OUT THEN update_zoom_out(d)
            ELSE update_following(d, mouse_x, mouse_y)
        first == Step(c)
        second == Step(first.c)
    IN  IF dt > 16
        THEN [c |-> second.c, changed |-> first.changed \/ second.changed]
        ELSE first

\* update(dt, mouse_x, mouse_y); returns the controller and the returned flag
update(c, dt, mouse_x, mouse_y) ==
    IF c.state = IDLE THEN [c |-> c, changed |-> FALSE]
    ELSE IF c.state = ZOOMING_IN THEN update_zoom_in(c, mouse_x, mouse_y)
    ELSE IF c.state = ZOOMING_OUT THEN update_zoom_out(c)
    ELSE update_following(c, mouse_x, mouse_y)

\* variant of reset: the following flag is left as it was
reset_keeps_following(c) ==
    [c EXCEPT !.state = IDLE,
              !.crop_current = c.crop_original,
              !.animation_progress = DblZero,
              !.locked_center = None,
              !.locked_last_pos = None]

\* variant of reset: restores the crop from the target and rewinds the target
reset_from_target(c) ==
    [c EXCEPT !.state = IDLE,
              !.crop_current = c.crop_target,
              !.crop_target = c.crop_original,
              !.animation_progress = DblZero,
              !.is_following = FALSE,
              !.locked_center = None,
              !.locked_last_pos = None]

reset(c) ==
    [c EXCEPT !.state = IDLE,
              !.crop_current = c.crop_original,
              !.animation_progress = DblZero,
              !.is_following = FALSE,
              !.locked_center = None,
              !.locked_last_pos = None]

\* variant of set_source_info: the crop in effect is kept
set_source_info_keeps_current(c, info) ==
    [c EXCEPT !.source_info = info,
              !.crop_original = CropRect(0, 0, info.width * FU, info.height * FU)]

\* set_source_info; info is the SourceInfo built from the arguments
set_source_info(c, info) ==
    [c EXCEPT !.source_info = info,
              !.crop_original = CropRect(0, 0, info.width * FU, info.height * FU),
              !.crop_current = CropRect(0, 0, info.width * FU, info.height * FU)]

\* the division width / zoom of _calculate_target_crop raises
\* ZeroDivisionError exactly when zoom_factor is 0 (0 / 0 included)
ZeroDivision(c) == c.profile.zoom_factor = 0

\* update reaches _calculate_target_crop: a zoom-in tick that neither completes
\* nor keeps its target, or a following tick
update_calculates(c) ==
    \/ /\ c.state = ZOOMING_IN
       /\ ~DblGeOne(DblAdd(c.animation_progress, c.profile.zoom_speed))
       /\ c.profile.auto_follow
    \/ c.state \in {ZOOMED, FOLLOWING} /\ c.is_following

\* the controller an update leaves behind when that call raises: the zoom-in
\* tick has already advanced the progress, the following tick changed nothing
update_raised(c) ==
    IF c.state = ZOOMING_IN
    THEN [c EXCEPT !.animation_progress = DblAdd(c.animation_progress, c.profile.zoom_speed)]
    ELSE c

\* variant of the is_zoomed property: true only once the zoom-in has finished
is_zoomed_settled(c) == c.state \in {ZOOMED, FOLLOWING}

\* the properties is_zoomed, is_animating and is_following
is_zoomed(c) == c.state # IDLE
is_animating(c) == c.state \in {ZOOMING_IN, ZOOMING_OUT}
is_following(c) == c.is_following /\ c.state \in {ZOOMED, FOLLOWING}

\* _set_state: the arguments the state-changed callback receives when an
\* operation takes the controller from old to new through _set_state
set_state(old, new) == IF new.state # old.state THEN <<new.state>> ELSE <<>>

\* variant of _notify_crop_changed: the callback is handed the target rectangle
notify_crop_changed_target(c) == <<c.crop_target>>

\* _notify_crop_changed: the argument the crop-changed callback receives
notify_crop_changed(c) == <<c.crop_current>>

\* ------------------------------------------------------ the mouse tracker
\* an Optional[int] argument: None, or the integer in a one-element tuple
Some(v) == <<v>>

\* MouseTracker.__init__ on a build where pynput is or is not importable and
\* the platform fallback (Quartz, GetCursorPos, Xlib) is or is not available;
\* pointer is where the operating system has the mouse cursor
NewMouseTracker(pynput, fallback, pointer) ==
    [position |-> <<0, 0>>,
     listener |-> FALSE,
     running |-> FALSE,
     override_position |-> None,
     pynput |-> pynput,
     fallback_method |-> ~pynput /\ fallback,
     pointer |-> pointer]

\* _on_move: the listener's callback when the mouse moves
on_move(t, x, y) == [t EXCEPT !.position = <<x, y>>]

\* variant of the position property: the override is not consulted
position_live(t) ==
    IF t.listener /\ t.running THEN t.position
    ELSE IF t.fallback_method THEN t.pointer
    ELSE t.position

\* the position property
position(t) ==
    IF t.override_position # None THEN t.override_position
    ELSE IF t.listener /\ t.running THEN t.position
    ELSE IF t.fallback_method THEN t.pointer
    ELSE t.position

\* set_override
set_override(t, x, y) ==
    IF x = None \/ y = None
    THEN [t EXCEPT !.override_position = None]
    ELSE [t EXCEPT !.override_position = <<x[1], y[1]>>]

\* clear_override
clear_override(t) == [t EXCEPT !.override_position = None]

\* start
start(t) ==
    IF t.running THEN t
    ELSE IF t.pynput THEN [t EXCEPT !.listener = TRUE, !.running = TRUE]
    ELSE IF t.fallback_method THEN [t EXCEPT !.running = TRUE]
    ELSE t

\* stop
stop(t) ==
    IF ~t.running THEN t
    ELSE [t EXCEPT !.running = FALSE, !.listener = FALSE]

\* poll: the tracker afterwards and the position returned; fails says that
\* reading mouse.Controller().position raised
poll(t, fails) ==
    IF t.override_position # None THEN [t |-> t, pos |-> t.override_position]
    ELSE IF t.fallback_method
    THEN [t |-> [t EXCEPT !.position = t.pointer], pos |-> t.pointer]
    ELSE IF t.pynput /\ ~fails
    THEN [t |-> [t EXCEPT !.position = t.pointer], pos |-> t.pointer]
    ELSE [t |-> t, pos |-> t.position]

\* ------------------------------------------------------------ the system
\* source sizes, mouse positions (screen pixels) and frame times (ms) tried
Sources == {<<8, 4>>}
Mice == {<<0, 1>>, <<4, 2>>, <<10, 3>>}
Dts == {16}

\* profiles tried: every animation length and easing, and every follow option
\* with a one-tick animation; following closes the whole distance in one
\* step (follow_speed 1.0)
Profiles ==
    {ZoomProfile(k, e, af, FU, 4, FALSE, FALSE) :
        k \in 1..MaxK, e \in {"linear", "ease_in_out"}, af \in BOOLEAN}
    \cup
    {ZoomProfile(1, "linear", af, FU, 4, fob, alr) :
        af \in BOOLEAN, fob \in BOOLEAN, alr \in BOOLEAN}

\* no zoom-out is running
NoRect == CropRect(0, 0, 0, 0)

VARIABLES
    zc,                \* the ZoomController instance (its fields)
    call,              \* the last call made by the host, with its arguments
    ret,               \* what the last call returned (update's flag, a rectangle)
    raised,            \* Some(exception) the last call raised, None if it returned
    on_state_changed,  \* arguments of the state-changed callbacks of the last call
    on_crop_changed,   \* arguments of the crop-changed callbacks of the last call
    ticks,             \* update ticks since the running animation was started
    zoomed_rect,       \* crop_current when the last zoom-out was requested
    is_timer_running,  \* the host script's flag of that name
    timer,             \* on_timer is registered with obs.timer_add
    run2,              \* a second run fed the same calls with other dt values:
                       \* its controller, its last dt and what update returned
    updating,          \* the update that on_timer has entered and not yet left:
                       \* the controller it entered with and the mouse position
    thread,            \* the thread that made the last call
    mt,                \* the MouseTracker instance and the system's pointer
    chase_ticks,       \* update ticks taken in Zoomed or Following since the zoom-in
    last_tick,         \* the transformed mouse point of the last update tick
    pc,                \* where on_timer and the server thread's on_toggle_zoom stand
    chase64,           \* a chase of _update_following in binary64: the crop position,
                       \* the target, follow_speed and the parity of the ticks taken
    config             \* the ConfigManager's Config: profiles in key order, default_profile

vars == <<zc, call, ret, raised, on_state_changed, on_crop_changed, ticks, zoomed_rect, is_timer_running, timer, run2, updating, thread, mt, chase_ticks, last_tick, pc, chase64, config>>

\* no second run
NoRun == [zc |-> None, dt |-> 0, ret |-> FALSE]

\* the host script's own state
hostvars == <<is_timer_running, timer>>

\* the threads and the mouse tracker
othervars == <<updating, thread, mt, chase_ticks, last_tick, pc, chase64, config>>

\* everything but the controller instance, at rest
\* both callbacks have returned
Returned == [on_timer |-> "returned", on_toggle_zoom |-> "returned"]

InitHostRest ==
    /\ call = [op |-> "init"]
    /\ ret = FALSE
    /\ raised = None
    /\ on_state_changed = <<>>
    /\ on_crop_changed = <<>>
    /\ ticks = 0
    /\ zoomed_rect = NoRect
    /\ is_timer_running = FALSE
    /\ timer = FALSE
    /\ updating = None
    /\ thread = "obs"
    /\ chase_ticks = 0
    /\ last_tick = None
    /\ pc = Returned
    /\ mt = NewMouseTracker(TRUE, FALSE, <<0, 0>>)

\* ... with no binary64 chase under way and no configuration loaded
InitRest ==
    /\ InitHostRest
    /\ chase64 = None
    /\ config = None

Init ==
    /\ \E p \in Profiles, s \in Sources : zc = NewController(p, s[1], s[2])
    /\ InitRest
    /\ run2 = NoRun

\* a call of toggle_zoom(mouse_x, mouse_y) and what it leaves behind
CallToggleZoom(mouse_x, mouse_y) ==
    LET raises == zc.state = IDLE /\ ZeroDivision(zc)
    IN  /\ zc' = IF raises THEN zc ELSE toggle_zoom(zc, mouse_x, mouse_y)
        /\ call' = [op |-> "toggle_zoom", mouse_x |-> mouse_x, mouse_y |-> mouse_y]
        /\ ret' = FALSE
        /\ raised' = IF raises THEN Some("ZeroDivisionError") ELSE None
        /\ on_state_changed' = set_state(zc, zc')
        /\ on_crop_changed' = <<>>
        /\ ticks' = IF zc.state \in {IDLE, ZOOMED, FOLLOWING} THEN 0 ELSE ticks
        /\ zoomed_rect' = IF zc.state \in {ZOOMED, FOLLOWING} THEN zc.crop_current
                          ELSE zoomed_rect

\* a call of toggle_follow()
CallToggleFollow ==
    /\ zc' = toggle_follow(zc)
    /\ call' = [op |-> "toggle_follow"]
    /\ ret' = FALSE
    /\ raised' = None
    /\ on_state_changed' = set_state(zc, zc')
    /\ on_crop_changed' = <<>>
    /\ UNCHANGED <<ticks, zoomed_rect>>

\* a call of update(dt, mouse_x, mouse_y)
CallUpdate(dt, mouse_x, mouse_y) ==
    \E raises \in {ZeroDivision(zc) /\ update_calculates(zc)} :
    \E r \in {IF raises THEN [c |-> update_raised(zc), changed |-> FALSE]
                         ELSE update(zc, dt, mouse_x, mouse_y)} :
        /\ zc' = r.c
        /\ call' = [op |-> "update", dt |-> dt, mouse_x |-> mouse_x, mouse_y |-> mouse_y]
        /\ ret' = r.changed
        /\ raised' = IF raises THEN Some("ZeroDivisionError") ELSE None
        /\ on_state_changed' = set_state(zc, zc')
        /\ on_crop_changed' = IF r.changed THEN notify_crop_changed(r.c) ELSE <<>>
        /\ ticks' = IF zc.state \in {ZOOMING_IN, ZOOMING_OUT} THEN ticks + 1 ELSE ticks
        /\ zoomed_rect' = IF zc'.state = IDLE THEN NoRect ELSE zoomed_rect

\* a call of reset()
CallReset ==
    /\ zc' = reset(zc)
    /\ call' = [op |-> "reset"]
    /\ ret' = FALSE
    /\ raised' = None
    /\ on_state_changed' = <<>>
    /\ on_crop_changed' = notify_crop_changed(zc')
    /\ ticks' = 0
    /\ zoomed_rect' = NoRect

ToggleZoom == \E m \in Mice : CallToggleZoom(m[1], m[2]) /\ UNCHANGED <<hostvars, run2, othervars>>

ToggleFollow == CallToggleFollow /\ UNCHANGED <<hostvars, run2, othervars>>

Update == \E dt \in Dts, m \in Mice : CallUpdate(dt, m[1], m[2]) /\ UNCHANGED <<hostvars, run2, othervars>>

Reset == CallReset /\ UNCHANGED <<hostvars, run2, othervars>>

Next == ToggleZoom \/ ToggleFollow \/ Update \/ Reset

Spec == Init /\ [][Next]_vars

\* ------------------------------------- _calculate_target_crop on its own
\* the farthest mouse coordinate tried, in screen pixels
MaxMouse == 10000

\* zoom factors the host's property offers (1.0 to 5.0), in fixed point
ZoomFactors == {FU, 3 * (FU \div 2), 2 * FU, 5 * (FU \div 2), 3 * FU, 5 * FU}

CropSources == {<<8, 4>>, <<7, 5>>, <<1, 1>>, <<1920, 1080>>}

\* mouse positions inside, on the edges of, and far outside the sources
CropMice == {-MaxMouse, -1, 0, 3, 4, 960, 1920, MaxMouse}
            \X {-MaxMouse, 0, 2, 540, 1080, MaxMouse}

\* source geometry handed to set_source_info by the host: plain; on a scaled
\* display left of the primary one; with a crop filter
SourceInfos(width, height) ==
    {SourceInfo(width, height),
     [SourceInfo(width, height) EXCEPT !.scale_x = 2 * FU, !.scale_y = 2 * FU,
                                       !.display_x = -1920],
     [SourceInfo(width, height) EXCEPT !.crop_left = 2, !.crop_top = 1]}

CropControllers ==
    UNION {{[NewController([ZoomProfile(1, "linear", FALSE, FU, 4, FALSE, FALSE)
                               EXCEPT !.zoom_factor = z], s[1], s[2])
                EXCEPT !.source_info = i] :
               z \in ZoomFactors, i \in SourceInfos(s[1], s[2])} : s \in CropSources}

InitCrop ==
    /\ zc \in CropControllers
    /\ InitRest
    /\ run2 = NoRun

\* a direct call of _calculate_target_crop; ret is the rectangle it returns
CalculateTargetCrop ==
    \E m \in CropMice :
        /\ call' = [op |-> "calculate_target_crop", mouse_x |-> m[1], mouse_y |-> m[2]]
        /\ ret' = calculate_target_crop(zc, m[1], m[2])
        /\ UNCHANGED <<zc, raised, on_state_changed, on_crop_changed, ticks, zoomed_rect>>
        /\ UNCHANGED <<hostvars, run2, othervars>>

\* a direct call of _transform_mouse; ret is the source point it returns
TransformMouse ==
    \E m \in CropMice :
        /\ call' = [op |-> "transform_mouse", mouse_x |-> m[1], mouse_y |-> m[2]]
        /\ ret' = transform_mouse(zc, m[1], m[2])
        /\ UNCHANGED <<zc, raised, on_state_changed, on_crop_changed, ticks, zoomed_rect>>
        /\ UNCHANGED <<hostvars, run2, othervars>>

NextCrop == CalculateTargetCrop \/ TransformMouse

SpecCrop == InitCrop /\ [][NextCrop]_vars

\* ------------------- the controller with set_source_info and any profile
\* zoom factors a profile can hold (ZoomProfile validates nothing)
AnyZoomFactors == {2 * FU, 0}

\* two-tick animations, so that a call can fall in the middle of one
SrcProfiles ==
    {[ZoomProfile(2, "linear", af, FU, 4, FALSE, FALSE) EXCEPT !.zoom_factor = z] :
        af \in BOOLEAN, z \in AnyZoomFactors}

\* sources the controller starts with, an empty one included, and sources
\* handed to set_source_info later
SrcSources == {<<8, 4>>, <<0, 4>>}
NewSources == {<<8, 4>>, <<4, 4>>}

InitSrc ==
    /\ \E p \in SrcProfiles, s \in SrcSources : zc = NewController(p, s[1], s[2])
    /\ InitRest
    /\ run2 = NoRun

\* a call of set_source_info
SetSourceInfo ==
    \E s \in NewSources :
        /\ zc' = set_source_info(zc, SourceInfo(s[1], s[2]))
        /\ call' = [op |-> "set_source_info", info |-> SourceInfo(s[1], s[2])]
        /\ ret' = FALSE
        /\ raised' = None
        /\ on_state_changed' = <<>>
        /\ on_crop_changed' = <<>>
        /\ UNCHANGED <<ticks, zoomed_rect>>
        /\ UNCHANGED <<hostvars, run2, othervars>>

NextSrc == ToggleZoom \/ ToggleFollow \/ Update \/ Reset \/ SetSourceInfo

SpecSrc == InitSrc /\ [][NextSrc]_vars

\* ------------------- every operation of the controller, profile swaps too
\* the profile setter
SetProfile ==
    \E p \in SrcProfiles :
        /\ p # zc.profile
        /\ zc' = [zc EXCEPT !.profile = p]
        /\ call' = [op |-> "set_profile", profile |-> p]
        /\ ret' = FALSE
        /\ raised' = None
        /\ on_state_changed' = <<>>
        /\ on_crop_changed' = <<>>
        /\ UNCHANGED <<ticks, zoomed_rect>>
        /\ UNCHANGED <<hostvars, run2, othervars>>

NextAll == NextSrc \/ SetProfile

SpecAll == InitSrc /\ [][NextAll]_vars

\* ------------------------------------ update ticks that keep being delivered
\* animation lengths tried: zoom_speed 1/k, with 0.1 of the default profiles
LiveKs == {2, 3, 10}

LiveProfiles ==
    {ZoomProfile(k, "linear", af, FU, 4, FALSE, FALSE) : k \in LiveKs, af \in BOOLEAN}

InitLive ==
    /\ \E p \in LiveProfiles, s \in Sources : zc = NewController(p, s[1], s[2])
    /\ InitRest
    /\ run2 = NoRun

\* on_timer stays registered while the controller is not Idle, and an update
\* is always possible: the ticks are weakly fair
SpecLive == InitLive /\ [][Next]_vars /\ WF_vars(Update)

\* ----------------------- two runs of the controller fed different dt values
\* frame times handed to update, in ms: a 60 fps frame and a late one
DtValues == {16, 33}

DtProfiles ==
    {ZoomProfile(k, "linear", af, FU, 4, fob, FALSE) :
        k \in 1..2, af \in BOOLEAN, fob \in BOOLEAN}

InitDt ==
    /\ \E p \in DtProfiles, s \in Sources : zc = NewController(p, s[1], s[2])
    /\ InitRest
    /\ run2 = [zc |-> zc, dt |-> 0, ret |-> FALSE]

\* the same call of toggle_zoom made in both runs
ToggleZoomBoth ==
    \E m \in Mice :
        /\ CallToggleZoom(m[1], m[2])
        /\ run2' = [run2 EXCEPT !.zc = toggle_zoom(run2.zc, m[1], m[2]), !.ret = FALSE]
        /\ UNCHANGED <<hostvars, othervars>>

ToggleFollowBoth ==
    /\ CallToggleFollow
    /\ run2' = [run2 EXCEPT !.zc = toggle_follow(run2.zc), !.ret = FALSE]
    /\ UNCHANGED <<hostvars, othervars>>

\* update with the same mouse position in both runs and a dt of its own in each
UpdateBoth ==
    \E dt \in DtValues, dt2 \in DtValues, m \in Mice :
        \E r2 \in {update(run2.zc, dt2, m[1], m[2])} :
            /\ CallUpdate(dt, m[1], m[2])
            /\ run2' = [zc |-> r2.c, dt |-> dt2, ret |-> r2.changed]
            /\ UNCHANGED <<hostvars, othervars>>

ResetBoth ==
    /\ CallReset
    /\ run2' = [run2 EXCEPT !.zc = reset(run2.zc), !.ret = FALSE]
    /\ UNCHANGED <<hostvars, othervars>>

NextDt == ToggleZoomBoth \/ ToggleFollowBoth \/ UpdateBoth \/ ResetBoth

SpecDt == InitDt /\ [][NextDt]_vars

\* ------------------------------------------------- unknown easing names
\* two runs fed the same calls: the first with a profile whose easing name
\* is not registered, the second with the same profile but "linear"
UnknownNames == {"", "Linear", "ease-in-out"}

EaseProfiles ==
    {ZoomProfile(k, e, af, FU, 4, FALSE, FALSE) :
        k \in 3..4, e \in UnknownNames, af \in BOOLEAN}

InitEase ==
    /\ \E p \in EaseProfiles, s \in Sources : zc = NewController(p, s[1], s[2])
    /\ InitRest
    /\ run2 = [zc |-> [zc EXCEPT !.profile.easing = "linear"], dt |-> 0, ret |-> FALSE]

SpecEase == InitEase /\ [][NextDt]_vars

\* ------------------------------------------------------ the host script
\* the host's callbacks, run one at a time once script_load has made the
\* controller and the mouse tracker; the mouse position is whatever the
\* tracker reports
HostProfiles ==
    {ZoomProfile(k, "linear", af, FU, 4, fob, FALSE) :
        k \in 1..2, af \in BOOLEAN, fob \in BOOLEAN}

InitHost ==
    /\ \E p \in HostProfiles, s \in Sources : zc = NewController(p, s[1], s[2])
    /\ InitRest
    /\ run2 = NoRun

\* obs.timer_add(on_timer, ...) together with the flag
timer_add ==
    /\ is_timer_running' = TRUE
    /\ timer' = TRUE

\* obs.timer_remove(on_timer) together with the flag
timer_remove ==
    /\ is_timer_running' = FALSE
    /\ timer' = FALSE

\* hotkey (or websocket) callback for the zoom toggle
on_toggle_zoom ==
    \E pressed \in BOOLEAN, pos \in Mice :
        IF pressed
        THEN /\ CallToggleZoom(pos[1], pos[2])
             /\ IF raised' = None /\ ~is_timer_running /\ is_zoomed(zc')
                THEN timer_add
                ELSE UNCHANGED hostvars
             /\ UNCHANGED <<run2, othervars>>
        ELSE UNCHANGED vars

\* hotkey (or websocket) callback for the follow toggle
on_toggle_follow ==
    \E pressed \in BOOLEAN :
        IF pressed
        THEN /\ CallToggleFollow
             /\ IF ~is_timer_running /\ is_following(zc')
                THEN timer_add
                ELSE UNCHANGED hostvars
             /\ UNCHANGED <<run2, othervars>>
        ELSE UNCHANGED vars

\* the timer callback, called by OBS while it is registered
on_timer ==
    /\ timer
    /\ \E pos \in Mice :
        /\ CallUpdate(16, pos[1], pos[2])
        /\ IF raised' = None /\ ~is_zoomed(zc') /\ ~is_animating(zc')
           THEN timer_remove
           ELSE UNCHANGED hostvars
        /\ UNCHANGED <<run2, othervars>>

\* release_sceneitem, as far as the timer and the controller go
release_sceneitem ==
    /\ IF is_timer_running THEN timer_remove ELSE UNCHANGED hostvars
    /\ CallReset
    /\ UNCHANGED <<run2, othervars>>

NextHost == on_toggle_zoom \/ on_toggle_follow \/ on_timer \/ release_sceneitem

SpecHost == InitHost /\ [][NextHost]_vars

\* ---------------------------------------------------- the remote control
\* the WebSocket server runs _handle_message on the thread WebSocketServer.start
\* creates and calls the host's callbacks from there, while OBS calls on_timer
\* on its own thread; nothing orders the two, so a remote command can run
\* after update has been entered and before it has returned
ThreadProfiles ==
    {ZoomProfile(k, "linear", TRUE, FU, 4, FALSE, FALSE) : k \in 1..2}

InitThreads ==
    /\ \E p \in ThreadProfiles, s \in Sources : zc = NewController(p, s[1], s[2])
    /\ InitRest
    /\ run2 = NoRun

\* on_timer on the OBS thread, up to the point where update has been entered
on_timer_enter ==
    /\ timer
    /\ updating = None
    /\ \E pos \in Mice : updating' = [zc |-> zc, mouse |-> pos]
    /\ thread' = "obs"
    /\ UNCHANGED <<zc, call, ret, raised, on_state_changed, on_crop_changed>>
    /\ UNCHANGED <<ticks, zoomed_rect, hostvars, run2, mt, chase_ticks, last_tick, pc, chase64, config>>

\* the rest of on_timer: update has read each field either before or after
\* the server thread wrote it (seen), and what it assigns lands on top of
\* what the server thread left
on_timer_leave ==
    /\ updating # None
    /\ \E seen \in {updating.zc, zc} :
       \E r \in {update(seen, 16, updating.mouse[1], updating.mouse[2])} :
        /\ zc' = [f \in DOMAIN zc |-> IF r.c[f] # seen[f] THEN r.c[f] ELSE zc[f]]
        /\ call' = [op |-> "update", dt |-> 16,
                    mouse_x |-> updating.mouse[1], mouse_y |-> updating.mouse[2]]
        /\ ret' = r.changed
        /\ raised' = None
        /\ on_state_changed' = set_state(seen, r.c)
        /\ on_crop_changed' = IF r.changed THEN notify_crop_changed(r.c) ELSE <<>>
    /\ IF ~is_zoomed(zc') /\ ~is_animating(zc')
       THEN timer_remove
       ELSE UNCHANGED hostvars
    /\ updating' = None
    /\ thread' = "obs"
    /\ UNCHANGED <<ticks, zoomed_rect, run2, mt, chase_ticks, last_tick, pc, chase64, config>>

\* _handle_message, command toggle_zoom: on_toggle_zoom(True) on the server thread
ws_toggle_zoom ==
    /\ \E pos \in Mice : CallToggleZoom(pos[1], pos[2])
    /\ IF raised' = None /\ ~is_timer_running /\ is_zoomed(zc')
       THEN timer_add
       ELSE UNCHANGED hostvars
    /\ thread' = "server"
    /\ UNCHANGED <<run2, updating, mt, chase_ticks, last_tick, pc, chase64, config>>

\* _handle_message, command toggle_follow: on_toggle_follow(True) on the server thread
ws_toggle_follow ==
    /\ CallToggleFollow
    /\ IF ~is_timer_running /\ is_following(zc')
       THEN timer_add
       ELSE UNCHANGED hostvars
    /\ thread' = "server"
    /\ UNCHANGED <<run2, updating, mt, chase_ticks, last_tick, pc, chase64, config>>

\* _handle_message, command set_profile: set_profile(p) on the server thread
ws_set_profile ==
    /\ \E p \in ThreadProfiles :
        /\ zc' = [zc EXCEPT !.profile = p]
        /\ call' = [op |-> "set_profile", profile |-> p]
    /\ ret' = FALSE
    /\ raised' = None
    /\ on_state_changed' = <<>>
    /\ on_crop_changed' = <<>>
    /\ thread' = "server"
    /\ UNCHANGED <<ticks, zoomed_rect, hostvars, run2, updating, mt, chase_ticks, last_tick, pc, chase64, config>>

NextThreads ==
    on_timer_enter \/ on_timer_leave \/ ws_toggle_zoom \/ ws_toggle_follow \/ ws_set_profile

SpecThreads == InitThreads /\ [][NextThreads]_vars

\* ------------------------------------------- the callbacks, statement by statement
\* on_timer on the OBS thread and on_toggle_zoom on the server thread, each cut
\* where it reads the state the other writes: after the controller call and
\* after the test that guards the timer call. The controller calls themselves
\* are taken whole here.

\* on_timer, lines 418-425: the mouse position is read and update called
timer_update ==
    /\ timer
    /\ pc.on_timer = "returned"
    /\ \E pos \in Mice : CallUpdate(16, pos[1], pos[2])
    /\ pc' = [pc EXCEPT !.on_timer = "updated"]
    /\ thread' = "obs"
    /\ UNCHANGED <<hostvars, run2, updating, mt, chase_ticks, last_tick, chase64, config>>

\* on_timer, line 428: the test of is_zoomed and is_animating
timer_test ==
    /\ pc.on_timer = "updated"
    /\ pc' = [pc EXCEPT !.on_timer = IF ~is_zoomed(zc) /\ ~is_animating(zc)
                                     THEN "removing" ELSE "returned"]
    /\ UNCHANGED <<zc, call, ret, raised, on_state_changed, on_crop_changed>>
    /\ UNCHANGED <<ticks, zoomed_rect, hostvars, run2, updating, thread, mt, chase_ticks, last_tick, chase64, config>>

\* on_timer, lines 429-430: the flag is cleared and the timer removed
timer_stop ==
    /\ pc.on_timer = "removing"
    /\ timer_remove
    /\ pc' = [pc EXCEPT !.on_timer = "returned"]
    /\ UNCHANGED <<zc, call, ret, raised, on_state_changed, on_crop_changed>>
    /\ UNCHANGED <<ticks, zoomed_rect, run2, updating, thread, mt, chase_ticks, last_tick, chase64, config>>

\* on_toggle_zoom(True) from _handle_message, lines 388-389: toggle_zoom is called
remote_toggle_zoom ==
    /\ pc.on_toggle_zoom = "returned"
    /\ \E pos \in Mice : CallToggleZoom(pos[1], pos[2])
    /\ pc' = [pc EXCEPT !.on_toggle_zoom = IF raised' = None THEN "toggled" ELSE "returned"]
    /\ thread' = "server"
    /\ UNCHANGED <<hostvars, run2, updating, mt, chase_ticks, last_tick, chase64, config>>

\* on_toggle_zoom, line 393: the test of is_timer_running and is_zoomed
remote_test ==
    /\ pc.on_toggle_zoom = "toggled"
    /\ pc' = [pc EXCEPT !.on_toggle_zoom = IF ~is_timer_running /\ is_zoomed(zc)
                                           THEN "adding" ELSE "returned"]
    /\ UNCHANGED <<zc, call, ret, raised, on_state_changed, on_crop_changed>>
    /\ UNCHANGED <<ticks, zoomed_rect, hostvars, run2, updating, thread, mt, chase_ticks, last_tick, chase64, config>>

\* on_toggle_zoom, lines 394-397: the flag is set and the timer added
remote_start ==
    /\ pc.on_toggle_zoom = "adding"
    /\ timer_add
    /\ pc' = [pc EXCEPT !.on_toggle_zoom = "returned"]
    /\ UNCHANGED <<zc, call, ret, raised, on_state_changed, on_crop_changed>>
    /\ UNCHANGED <<ticks, zoomed_rect, run2, updating, thread, mt, chase_ticks, last_tick, chase64, config>>

NextRace ==
    timer_update \/ timer_test \/ timer_stop \/ remote_toggle_zoom \/ remote_test \/ remote_start

SpecRace == InitThreads /\ [][NextRace]_vars

\* ------------------------------------------------------ the mouse tracker
\* one MouseTracker: the pointer moves (the listener, when it runs, is told),
\* the remote control sets and clears the override, the host reads the
\* position property and polls; the controller is not involved
Points == {<<0, 0>>, <<3, 1>>, <<7, 2>>}
OverrideArgs == {None, Some(0), Some(5)}

\* what the tracker's steps leave alone
nontracker == <<zc, raised, on_state_changed, on_crop_changed, ticks, zoomed_rect, hostvars, run2, updating, thread, chase_ticks, last_tick, pc, chase64, config>>

InitMouse ==
    /\ \E p \in ThreadProfiles, s \in Sources : zc = NewController(p, s[1], s[2])
    /\ call = [op |-> "init"]
    /\ ret = FALSE
    /\ raised = None
    /\ on_state_changed = <<>>
    /\ on_crop_changed = <<>>
    /\ ticks = 0
    /\ zoomed_rect = NoRect
    /\ is_timer_running = FALSE
    /\ timer = FALSE
    /\ run2 = NoRun
    /\ updating = None
    /\ thread = "obs"
    /\ chase_ticks = 0
    /\ last_tick = None
    /\ pc = Returned
    /\ chase64 = None
    /\ config = None
    /\ \E pynput \in BOOLEAN, fallback \in BOOLEAN, p \in Points :
        mt = NewMouseTracker(pynput, fallback, p)

\* the user moves the mouse; a running listener calls _on_move
MouseMoved ==
    \E p \in Points :
        /\ p # mt.pointer
        /\ mt' = IF mt.listener /\ mt.running
                 THEN [on_move(mt, p[1], p[2]) EXCEPT !.pointer = p]
                 ELSE [mt EXCEPT !.pointer = p]
        /\ call' = [op |-> "mouse_moved", x |-> p[1], y |-> p[2]]
        /\ UNCHANGED <<ret, nontracker>>

SetOverride ==
    \E x \in OverrideArgs, y \in OverrideArgs :
        /\ mt' = set_override(mt, x, y)
        /\ call' = [op |-> "set_override", x |-> x, y |-> y]
        /\ UNCHANGED <<ret, nontracker>>

ClearOverride ==
    /\ mt' = clear_override(mt)
    /\ call' = [op |-> "clear_override"]
    /\ UNCHANGED <<ret, nontracker>>

Start ==
    /\ mt' = start(mt)
    /\ call' = [op |-> "start"]
    /\ UNCHANGED <<ret, nontracker>>

Stop ==
    /\ mt' = stop(mt)
    /\ call' = [op |-> "stop"]
    /\ UNCHANGED <<ret, nontracker>>

ReadPosition ==
    /\ ret' = position(mt)
    /\ call' = [op |-> "position"]
    /\ UNCHANGED <<mt, nontracker>>

Poll ==
    \E fails \in BOOLEAN :
    \E r \in {poll(mt, fails)} :
        /\ mt' = r.t
        /\ ret' = r.pos
        /\ call' = [op |-> "poll"]
        /\ UNCHANGED nontracker

NextMouse ==
    MouseMoved \/ SetOverride \/ ClearOverride \/ Start \/ Stop \/ ReadPosition \/ Poll

SpecMouse == InitMouse /\ [][NextMouse]_vars

\* ------------------------------------------------- the easing functions
\* direct calls of the registered easing functions and of lerp_eased at the
\* two ends of an animation; ret is the binary64 value returned
Ends == {0, 1}
LerpRanges == {<<0, 1>>, <<4, 0>>}

Ease ==
    \E name \in RegisteredNames \ LibmNames, t \in Ends :
        /\ call' = [op |-> "ease", name |-> name, t |-> t]
        /\ ret' = get_easing64(name, B64(t))
        /\ UNCHANGED <<zc, raised, on_state_changed, on_crop_changed, ticks, zoomed_rect>>
        /\ UNCHANGED <<hostvars, run2, othervars>>

LerpEased ==
    \E name \in RegisteredNames \ LibmNames, t \in Ends, r \in LerpRanges :
        /\ call' = [op |-> "lerp_eased", start |-> r[1], end |-> r[2],
                    t |-> t, easing |-> name]
        /\ ret' = lerp_eased64(B64(r[1]), B64(r[2]), B64(t), name)
        /\ UNCHANGED <<zc, raised, on_state_changed, on_crop_changed, ticks, zoomed_rect>>
        /\ UNCHANGED <<hostvars, run2, othervars>>

NextEasing == Ease \/ LerpEased

\* no controller animation is involved: one idle controller
InitEasing ==
    /\ zc = NewController(ZoomProfile(1, "linear", FALSE, FU, 4, FALSE, FALSE), 8, 4)
    /\ InitRest
    /\ run2 = NoRun

SpecEasing == InitEasing /\ [][NextEasing]_vars

\* ------------------------------------------------- the chase in binary64
\* The interpolation of _update_following (lines 406-413) with the crop
\* position in binary64: Following, no lock, the mouse held still, so that
\* the target is the same on every tick.

\* a follow_speed above 0: 2^-58 (the unit of a limb is 2^-60)
TinySpeed64 == [neg |-> FALSE, mag |-> [i \in Limbs |-> IF i = 1 THEN 4 ELSE 0]]

\* follow_speed 1.0 and the small one
ChaseSpeeds == {B64(1), TinySpeed64}

\* corners of the crop rectangles of a 1920x1080 source at zoom_factor 2.0
ChaseCorners == {[x |-> B64(x), y |-> B64(y)] : x \in {240, 480, 960}, y \in {270, 540}}

Abs64(a) == [a EXCEPT !.neg = FALSE]

\* abs(target.x - current.x) > 0.5 or abs(target.y - current.y) > 0.5
far64(c) ==
    \/ B64Lt(Half64, Abs64(B64Sub(c.target.x, c.crop_current.x)))
    \/ B64Lt(Half64, Abs64(B64Sub(c.target.y, c.crop_current.y)))

\* lines 410-413: the step toward the target and the flag update returns
chase64_step(c) ==
    IF far64(c)
    THEN [c |-> [c EXCEPT !.crop_current =
                     [x |-> lerp64(c.crop_current.x, c.target.x, c.follow_speed),
                      y |-> lerp64(c.crop_current.y, c.target.y, c.follow_speed)]],
          changed |-> TRUE]
    ELSE [c |-> c, changed |-> FALSE]

InitChase64 ==
    /\ zc = NewController(ZoomProfile(1, "linear", FALSE, FU, 4, FALSE, FALSE), 8, 4)
    /\ InitHostRest
    /\ run2 = NoRun
    /\ config = None
    /\ \E cur \in ChaseCorners, target \in ChaseCorners, speed \in ChaseSpeeds :
          chase64 = [crop_current |-> cur, target |-> target, follow_speed |-> speed,
                     odd |-> FALSE]

\* an update tick of the chase
UpdateChase64 ==
    /\ \E r \in {chase64_step(chase64)} :
          /\ chase64' = [r.c EXCEPT !.odd = ~chase64.odd]
          /\ ret' = r.changed
    /\ call' = [op |-> "update"]
    /\ UNCHANGED <<zc, raised, on_state_changed, on_crop_changed, ticks, zoomed_rect>>
    /\ UNCHANGED <<hostvars, run2, updating, thread, mt, chase_ticks, last_tick, pc, config>>

\* on_timer stays registered in Following: the ticks are weakly fair
SpecChase64 == InitChase64 /\ [][UpdateChase64]_vars /\ WF_vars(UpdateChase64)

\* ------------------------------------------------------- the ConfigManager
\* Config.profiles is a dict: the profiles in the order their names were first
\* inserted. Of a profile the name and one setting are kept.

ConfigProfile(name, zoom_factor) == [name |-> name, zoom_factor |-> zoom_factor]

\* _create_default_config: 'standard', 'presentation' and 'quick', with
\* default_profile 'standard' (the dataclass default)
create_default_config ==
    [profiles |-> <<ConfigProfile("standard", 2 * FU), ConfigProfile("presentation", 3 * FU),
                    ConfigProfile("quick", (5 * FU) \div 2)>>,
     default_profile |-> "standard"]

\* the keys of Config.profiles
profile_names(c) == {c.profiles[i].name : i \in DOMAIN c.profiles}

\* variant of remove_profile: the default is left naming the removed profile
remove_profile_keeps_default(c, name) ==
    IF name \in profile_names(c) /\ Len(c.profiles) > 1
    THEN [c |-> [c EXCEPT !.profiles = SelectSeq(c.profiles, LAMBDA p : p.name # name)],
          ret |-> TRUE]
    ELSE [c |-> c, ret |-> FALSE]

\* set_default_profile
set_default_profile(c, name) ==
    IF name \in profile_names(c)
    THEN [c |-> [c EXCEPT !.default_profile = name], ret |-> TRUE]
    ELSE [c |-> c, ret |-> FALSE]

\* add_profile: a new key goes to the end, a known key keeps its place
add_profile(c, profile) ==
    IF profile.name \in profile_names(c)
    THEN [c EXCEPT !.profiles = [i \in DOMAIN c.profiles |->
                                    IF c.profiles[i].name = profile.name THEN profile
                                    ELSE c.profiles[i]]]
    ELSE [c EXCEPT !.profiles = Append(c.profiles, profile)]

\* remove_profile
remove_profile(c, name) ==
    IF name \in profile_names(c) /\ Len(c.profiles) > 1
    THEN LET rest == SelectSeq(c.profiles, LAMBDA p : p.name # name)
         IN  [c |-> [c EXCEPT !.profiles = rest,
                              !.default_profile = IF c.default_profile = name
                                                  THEN rest[1].name
                                                  ELSE c.default_profile],
              ret |-> TRUE]
    ELSE [c |-> c, ret |-> FALSE]

\* names the calls are made with: the three default ones and one more
ConfigNames == {"standard", "presentation", "quick", "custom"}

\* profiles handed to add_profile
ConfigProfiles == {ConfigProfile(n, z * FU) : n \in ConfigNames, z \in {2, 4}}

InitConfig ==
    /\ zc = NewController(ZoomProfile(1, "linear", FALSE, FU, 4, FALSE, FALSE), 8, 4)
    /\ InitHostRest
    /\ run2 = NoRun
    /\ chase64 = None
    /\ config = create_default_config

configrest == <<zc, raised, on_state_changed, on_crop_changed, ticks, zoomed_rect, hostvars, run2, updating, thread, mt, chase_ticks, last_tick, pc, chase64>>

AddProfile ==
    /\ \E p \in ConfigProfiles :
          /\ config' = add_profile(config, p)
          /\ call' = [op |-> "add_profile", profile |-> p]
    /\ ret' = None
    /\ UNCHANGED configrest

RemoveProfile ==
    /\ \E name \in ConfigNames :
       \E r \in {remove_profile(config, name)} :
          /\ config' = r.c
          /\ ret' = r.ret
          /\ call' = [op |-> "remove_profile", name |-> name]
    /\ UNCHANGED configrest

SetDefaultProfile ==
    /\ \E name \in ConfigNames :
       \E r \in {set_default_profile(config, name)} :
          /\ config' = r.c
          /\ ret' = r.ret
          /\ call' = [op |-> "set_default_profile", name |-> name]
    /\ UNCHANGED configrest

NextConfig == AddProfile \/ RemoveProfile \/ SetDefaultProfile

SpecConfig == InitConfig /\ [][NextConfig]_vars

\* ------------------------------------------------------ the gradual chase
\* two set-ups.  A 32x16 source zoomed to 16x8 and followed at follow_speed
\* 0.5: the dead-zone is 6.72 by 3.36 pixels around the locked centre and the
\* crop re-locks within 4 pixels of its target; the mouse visits points inside
\* and outside the dead-zone, at the source's edge and below the crop.  And a
\* 540x300 source under the "presentation" profile (zoom 3.0, follow_border
\* 15, follow_speed 0.3): the dead-zone is 63 by 35 pixels and the mouse
\* visits its edge.
FollowProfiles ==
    {ZoomProfile(1, "linear", TRUE, FU \div 2, s, FALSE, alr) :
        s \in {1, 4}, alr \in BOOLEAN}

presentation ==
    [ZoomProfile(1, "ease_in_out", TRUE, 3 * (FU \div 10), 4, FALSE, FALSE)
        EXCEPT !.zoom_factor = 3 * FU, !.follow_border = 15]

FollowControllers ==
    {NewController(p, 32, 16) : p \in FollowProfiles}
    \cup {NewController(presentation, 540, 300)}

\* where the zoom is toggled on, and the mouse positions of the ticks
FollowStart(c) == IF c.source_info.width = 32 THEN <<8, 8>> ELSE <<200, 150>>

FollowMice(c) ==
    IF c.source_info.width = 32
    THEN {<<0, 8>>, <<8, 8>>, <<12, 8>>, <<14, 8>>, <<18, 8>>, <<8, 14>>}
    ELSE {<<200, 150>>, <<230, 150>>, <<263, 150>>, <<264, 150>>, <<200, 115>>}

InitFollow ==
    /\ zc \in FollowControllers
    /\ InitRest
    /\ run2 = NoRun

\* the zoom is toggled on once and stays on
FollowToggleZoom ==
    /\ zc.state = IDLE
    /\ CallToggleZoom(FollowStart(zc)[1], FollowStart(zc)[2])
    /\ UNCHANGED <<hostvars, run2, othervars>>

\* at most MaxChase ticks are taken after each zoom-in
FollowUpdate ==
    /\ zc.state \in {ZOOMED, FOLLOWING} => chase_ticks < MaxChase
    /\ \E m \in FollowMice(zc) :
          /\ CallUpdate(16, m[1], m[2])
          /\ last_tick' = transform_mouse(zc, m[1], m[2])
    /\ chase_ticks' = IF zc.state \in {ZOOMED, FOLLOWING} THEN chase_ticks + 1 ELSE 0
    /\ UNCHANGED <<hostvars, run2, updating, thread, mt, pc, chase64, config>>

NextFollow == FollowToggleZoom \/ ToggleFollow \/ FollowUpdate

SpecFollow == InitFollow /\ [][NextFollow]_vars

\* ======================================================== properties
\* k with zoom_speed = 1/k
SpeedK == CHOOSE k \in 1..MaxK : DblInv(k) = zc.profile.zoom_speed

\* the binary64 sum 1/k + 1/k + ... (n terms), as += accumulates it from 0.0
RECURSIVE SumOfSpeed(_, _)
SumOfSpeed(k, n) == IF n = 0 THEN DblZero ELSE DblAdd(SumOfSpeed(k, n - 1), DblInv(k))

\* the eased time of the running animation
EasedT(c) == get_easing(c.profile.easing, DblToFix(c.animation_progress))

\* an update tick taken while zooming in / out
ZoomInTick == zc.state = ZOOMING_IN /\ call'.op = "update"
ZoomOutTick == zc.state = ZOOMING_OUT /\ call'.op = "update"

C2_ToggleZoomFromIdle ==
    [][(zc.state = IDLE /\ call'.op = "toggle_zoom") =>
          /\ zc'.state = ZOOMING_IN
          /\ zc'.animation_progress = DblZero
          /\ zc'.crop_target = calculate_target_crop(zc, call'.mouse_x, call'.mouse_y)
          /\ zc'.crop_current = zc.crop_current
          /\ zc'.crop_current = zc'.crop_original]_vars

\* a second zoom-in (after a completed cycle) aimed at a clamped mouse position
C2_Witness ==
    /\ call.op = "toggle_zoom"
    /\ zc.state = ZOOMING_IN
    /\ call.mouse_x = 10
    /\ zc.crop_target = CropRect(4 * FU, 2 * FU, 4 * FU, 2 * FU)
    /\ zc.animation_progress = DblZero
    /\ zc.locked_last_diff # None

\* C3: the tick that completes ZoomingIn enters Following with the flag set
\* and locked_center at the centre of target when auto_follow is on, and
\* Zoomed with the flag clear and no locked_center when it is off.
C3_ZoomInCompletion ==
    [][(ZoomInTick /\ zc'.state # ZOOMING_IN) =>
          IF zc.profile.auto_follow
          THEN /\ zc'.state = FOLLOWING
               /\ zc'.is_following
               /\ zc'.locked_center =
                      <<zc'.crop_target.x + RoundDiv(zc'.crop_target.width, 2),
                        zc'.crop_target.y + RoundDiv(zc'.crop_target.height, 2)>>
          ELSE /\ zc'.state = ZOOMED
               /\ ~zc'.is_following
               /\ zc'.locked_center = None]_vars

C3_Witness ==
    /\ call.op = "update"
    /\ on_state_changed = <<FOLLOWING>>
    /\ zc.is_following
    /\ zc.locked_center = <<4 * FU, 2 * FU>>
    /\ zc.crop_target = CropRect(2 * FU, FU, 4 * FU, 2 * FU)

\* C4: toggle_zoom in Zoomed or Following starts ZoomingOut with target equal
\* to original, progress 0 and the following flag clear.
C4_ToggleZoomFromZoomed ==
    [][(zc.state \in {ZOOMED, FOLLOWING} /\ call'.op = "toggle_zoom") =>
          /\ zc'.state = ZOOMING_OUT
          /\ zc'.crop_target = zc.crop_original
          /\ zc'.animation_progress = DblZero
          /\ ~zc'.is_following]_vars

C4_Witness ==
    /\ call.op = "toggle_zoom"
    /\ zc.state = ZOOMING_OUT
    /\ on_state_changed = <<ZOOMING_OUT>>
    /\ zoomed_rect # zc.crop_original
    /\ zc.profile.auto_follow

\* C5: the first ZoomingOut tick whose progress reaches 1 enters Idle with
\* current equal to original (earlier ticks stay in ZoomingOut), so every
\* cycle that returns to Idle ends with current = original.
C5_ZoomOutCompletion ==
    [][/\ ZoomOutTick =>
            IF DblGeOne(DblAdd(zc.animation_progress, zc.profile.zoom_speed))
            THEN zc'.state = IDLE /\ zc'.crop_current = zc'.crop_original
            ELSE zc'.state = ZOOMING_OUT
       /\ zc'.state = IDLE => zc'.crop_current = zc'.crop_original]_vars

\* a zoom-out of several ticks that has just returned to Idle
C5_Witness ==
    /\ call.op = "update"
    /\ on_state_changed = <<IDLE>>
    /\ ticks > 2
    /\ zc.crop_current = zc.crop_original
    /\ zc.crop_current = CropRect(0, 0, 8 * FU, 4 * FU)

\* C6 (as stated): on every ZoomingOut tick with progress < 1, current is the
\* eased interpolation from the rectangle shown when the zoom-out was
\* requested to original.
C6_ZoomOutAnimated ==
    [][(ZoomOutTick /\ zc'.state = ZOOMING_OUT) =>
          zc'.crop_current = LerpRect(zoomed_rect, zc'.crop_original, EasedT(zc'))]_vars

\* C7: toggle_zoom during ZoomingIn or ZoomingOut changes no field and calls
\* no callback; in Idle, Zoomed and Following it is accepted.
C7_ToggleZoomIgnoredWhileAnimating ==
    [][call'.op = "toggle_zoom" =>
          IF zc.state \in {ZOOMING_IN, ZOOMING_OUT}
          THEN zc' = zc /\ on_state_changed' = <<>> /\ on_crop_changed' = <<>>
          ELSE zc'.state # zc.state /\ on_state_changed' = <<zc'.state>>]_vars

\* toggle_zoom was called in the middle of an animation
C7_Witness ==
    /\ call.op = "toggle_zoom"
    /\ zc.state \in {ZOOMING_IN, ZOOMING_OUT}
    /\ ticks > 0
    /\ on_state_changed = <<>>
    /\ on_crop_changed = <<>>

\* C8: toggle_follow in Zoomed or Following flips the following flag and sets
\* the state to Following (flag set) or Zoomed (flag clear); in the other
\* states it changes nothing.
C8_ToggleFollow ==
    [][call'.op = "toggle_follow" =>
          IF zc.state \in {ZOOMED, FOLLOWING}
          THEN /\ zc'.is_following = ~zc.is_following
               /\ zc'.state = IF zc'.is_following THEN FOLLOWING ELSE ZOOMED
               /\ zc' = [zc EXCEPT !.is_following = zc'.is_following,
                                   !.state = zc'.state]
          ELSE zc' = zc /\ zc'.state = zc.state]_vars

C8_Witness ==
    /\ call.op = "toggle_follow"
    /\ on_state_changed = <<ZOOMED>>
    /\ ~zc.is_following

\* C9 (as stated): after reset the controller is Idle with current = original,
\* progress 0, the following flag clear and all three lock fields absent.
C9_ResetClearsEverything ==
    call.op = "reset" =>
        /\ zc.state = IDLE
        /\ zc.crop_current = zc.crop_original
        /\ zc.animation_progress = DblZero
        /\ ~zc.is_following
        /\ zc.locked_center = None
        /\ zc.locked_last_pos = None
        /\ zc.locked_last_diff = None

\* C10: a second reset changes no field of the controller.
C10_ResetIdempotent == reset(reset(zc)) = reset(zc)

\* a reset has run on a controller that had followed the mouse
C10_Witness ==
    /\ call.op = "reset"
    /\ zc = reset(zc)
    /\ zc.crop_target # zc.crop_original
    /\ zc.locked_last_diff # None

\* C11 (as stated): every operation that changes the controller's state invokes
\* the state-changed callback with the new state, and an operation that leaves
\* the state as it was does not invoke it.
C11_StateCallbackOnEveryChange ==
    [][/\ zc'.state # zc.state => on_state_changed' = <<zc'.state>>
       /\ zc'.state = zc.state => on_state_changed' = <<>>]_vars

\* C12: an operation that changes the current rectangle invokes the crop
\* callback with the new rectangle; update invokes it exactly once when it
\* returns True and not at all when it returns False; reset invokes it exactly
\* once, whether or not the rectangle changed.
C12_CropCallback ==
    [][/\ zc'.crop_current # zc.crop_current =>
              on_crop_changed' = <<zc'.crop_current>>
       /\ call'.op = "update" =>
              on_crop_changed' = IF ret' THEN <<zc'.crop_current>> ELSE <<>>
       /\ call'.op = "reset" => on_crop_changed' = <<zc'.crop_current>>]_vars

\* an update moved the crop while following and reported it once
C12_Witness ==
    /\ call.op = "update"
    /\ ret
    /\ zc.state = FOLLOWING
    /\ zc.crop_current # zc.crop_target
    /\ on_crop_changed = <<zc.crop_current>>

\* the transformed mouse point of the last call
CallSrc == transform_mouse(zc, call.mouse_x, call.mouse_y)

\* the source's extent in fixed point
SourceWidth == zc.source_info.width * FU
SourceHeight == zc.source_info.height * FU

\* C13: for every mouse position, however far outside the source, the
\* rectangle returned by _calculate_target_crop lies within the source:
\* 0 <= x, 0 <= y, x + width <= source_width, y + height <= source_height.
C13_TargetCropContained ==
    call.op = "calculate_target_crop" =>
        /\ 0 <= ret.x
        /\ 0 <= ret.y
        /\ ret.x + ret.width <= SourceWidth
        /\ ret.y + ret.height <= SourceHeight

\* a mouse far beyond the bottom-left corner gave the bottom-left rectangle
C13_Witness ==
    /\ call.op = "calculate_target_crop"
    /\ call.mouse_x = -MaxMouse
    /\ call.mouse_y = MaxMouse
    /\ zc.profile.zoom_factor = 3 * FU
    /\ ret.x = 0
    /\ ret.y + ret.height = SourceHeight
    /\ ret.height < SourceHeight

\* C14: the returned rectangle has width = source_width / zoom_factor and
\* height = source_height / zoom_factor; its x is sx - width/2 limited to
\* [0, source_width - width] and its y likewise; so it is centred on the
\* transformed mouse point (sx, sy) whenever that point is at least half the
\* zoomed extent from every edge; 1920x1080 at zoom 2 with the mouse at
\* (960, 540) gives {480, 270, 960, 540}.
C14_TargetCropReference ==
    call.op = "calculate_target_crop" =>
        LET width == FDiv(SourceWidth, zc.profile.zoom_factor)
            height == FDiv(SourceHeight, zc.profile.zoom_factor)
            left == CallSrc[1] - RoundDiv(width, 2)
            top == CallSrc[2] - RoundDiv(height, 2)
            interior == /\ left >= 0 /\ left <= SourceWidth - width
                        /\ top >= 0 /\ top <= SourceHeight - height
        IN  /\ ret.width = width
            /\ ret.height = height
            /\ ret.x = IF left < 0 THEN 0
                       ELSE IF left > SourceWidth - width THEN SourceWidth - width
                       ELSE left
            /\ ret.y = IF top < 0 THEN 0
                       ELSE IF top > SourceHeight - height THEN SourceHeight - height
                       ELSE top
            /\ interior => Center(ret) = CallSrc
            /\ (/\ zc.source_info = SourceInfo(1920, 1080)
                /\ zc.profile.zoom_factor = 2 * FU
                /\ call.mouse_x = 960 /\ call.mouse_y = 540)
               => ret = CropRect(480 * FU, 270 * FU, 960 * FU, 540 * FU)

\* the centred rectangle of the 1920x1080 source at zoom 2
C14_Witness ==
    /\ call.op = "calculate_target_crop"
    /\ zc.source_info = SourceInfo(1920, 1080)
    /\ zc.profile.zoom_factor = 2 * FU
    /\ call.mouse_x = 960
    /\ call.mouse_y = 540
    /\ ret = CropRect(480 * FU, 270 * FU, 960 * FU, 540 * FU)

\* C15 (as stated): with a source of zero width or height, or a non-positive
\* zoom_factor, toggle_zoom called in Idle does nothing: no target is
\* computed, no error is raised and the state stays Idle.
C15_DegenerateToggleIsNoOp ==
    [][(/\ call'.op = "toggle_zoom"
        /\ zc.state = IDLE
        /\ \/ zc.source_info.width = 0
           \/ zc.source_info.height = 0
           \/ zc.profile.zoom_factor <= 0)
       => /\ zc'.crop_target = zc.crop_target
          /\ raised' = None
          /\ zc'.state = IDLE]_vars

\* the transformed mouse point (mouse_x, mouse_y) lies outside the target
\* rectangle computed for that mouse position
OutsideTarget(c, mouse_x, mouse_y) ==
    LET target == calculate_target_crop(c, mouse_x, mouse_y)
        src == transform_mouse(c, mouse_x, mouse_y)
    IN  \/ src[1] < target.x \/ src[1] > target.x + target.width
        \/ src[2] < target.y \/ src[2] > target.y + target.height

\* C16: in Following with follow_outside_bounds = False, an update tick whose
\* mouse point lies outside the target computed for it returns False and
\* leaves current and the three lock fields as they were.
C16_OutsideBoundsSkipped ==
    [][(/\ call'.op = "update"
        /\ zc.state = FOLLOWING
        /\ ~zc.profile.follow_outside_bounds
        /\ OutsideTarget(zc, call'.mouse_x, call'.mouse_y))
       => /\ ret' = FALSE
          /\ zc'.crop_current = zc.crop_current
          /\ zc'.locked_center = zc.locked_center
          /\ zc'.locked_last_pos = zc.locked_last_pos
          /\ zc'.locked_last_diff = zc.locked_last_diff]_vars

\* a tick with the cursor beyond the source was skipped while the crop was
\* not where that cursor would put it
C16_Witness ==
    /\ call.op = "update"
    /\ zc.state = FOLLOWING
    /\ ~zc.profile.follow_outside_bounds
    /\ OutsideTarget(zc, call.mouse_x, call.mouse_y)
    /\ ~ret
    /\ zc.crop_current # calculate_target_crop(zc, call.mouse_x, call.mouse_y)

\* C17 (as stated): the lock state exists only while Following: in Idle,
\* ZoomingIn, Zoomed and ZoomingOut locked_center, locked_last_pos and
\* locked_last_diff are all absent.
C17_LockOnlyWhileFollowing ==
    zc.state # FOLLOWING =>
        /\ zc.locked_center = None
        /\ zc.locked_last_pos = None
        /\ zc.locked_last_diff = None

\* C18: two runs given the same calls and mouse positions but different dt
\* arguments have the same controller (state, progress, current, target,
\* lock fields) and the same update return value after every step.
C18_DtIndependent ==
    /\ run2.zc = zc
    /\ run2.ret = ret

\* a tick in the middle of a zoom-in advanced both runs, given different dt
C18_Witness ==
    /\ call.op = "update"
    /\ call.dt # run2.dt
    /\ zc.state = ZOOMING_IN
    /\ zc.animation_progress # DblZero
    /\ ret
    /\ run2.ret
    /\ run2.zc = zc

\* the fields set_source_info has no business with
KeptBySetSourceInfo(c) ==
    <<c.profile, c.state, c.animation_progress, c.crop_target, c.is_following,
      c.locked_center, c.locked_last_pos, c.locked_last_diff>>

\* what a set_source_info call does, in whatever state it is made: the source
\* info is replaced, original and current become the full frame, the state,
\* progress, target, following flag and lock fields stay, no callback runs
SetSourceInfoEffect ==
    call'.op = "set_source_info" =>
        /\ zc'.source_info = call'.info
        /\ zc'.crop_original = CropRect(0, 0, call'.info.width * FU, call'.info.height * FU)
        /\ zc'.crop_current = zc'.crop_original
        /\ KeptBySetSourceInfo(zc') = KeptBySetSourceInfo(zc)
        /\ on_state_changed' = <<>>
        /\ on_crop_changed' = <<>>

\* C19 (as stated): set_source_info has the effect above, and the state is
\* changed only by toggle_zoom, toggle_follow and update.
C19_OnlyThreeOperationsChangeState ==
    [][/\ SetSourceInfoEffect
       /\ zc'.state # zc.state => call'.op \in {"toggle_zoom", "toggle_follow", "update"}]_vars

\* C19 (amended): set_source_info has the effect above, and the state is
\* changed only by toggle_zoom, toggle_follow, update and reset.
C19_SetSourceInfo ==
    [][/\ SetSourceInfoEffect
       /\ zc'.state # zc.state =>
              call'.op \in {"toggle_zoom", "toggle_follow", "update", "reset"}]_vars

\* the source was replaced by one of another size in the middle of a zoom-in
C19_Witness ==
    /\ call.op = "set_source_info"
    /\ zc.state = ZOOMING_IN
    /\ zc.animation_progress # DblZero
    /\ zc.crop_current = zc.crop_original
    /\ zc.crop_current.width = 4 * FU
    /\ zc.crop_target.width = 4 * FU

\* C20: between the host's callbacks the tick timer is running exactly when
\* the controller is not Idle; it is started by the toggle that leaves Idle
\* and removed by the on_timer call whose update returns to Idle.
C20_TimerRunsIffNotIdle ==
    /\ [](/\ timer <=> zc.state # IDLE
          /\ is_timer_running <=> timer)
    /\ [][/\ (zc.state = IDLE /\ zc'.state # IDLE) =>
                 call'.op = "toggle_zoom" /\ ~timer /\ timer'
          /\ (call'.op = "update" /\ zc.state # IDLE /\ zc'.state = IDLE) =>
                 timer /\ ~timer']_vars

\* the on_timer call that finished a zoom-out has removed the timer
C20_Witness ==
    /\ call.op = "update"
    /\ on_state_changed = <<IDLE>>
    /\ zc.state = IDLE
    /\ ~timer
    /\ ~is_timer_running

\* C21: the controller is only ever touched from the OBS thread: no remote
\* command (toggle_zoom, toggle_follow, set_profile) runs on the server's
\* thread while on_timer is inside update
C21_NoRemoteCallDuringUpdate == ~(thread = "server" /\ updating # None)

\* C22: set_override(x, y) with both arguments given makes (x, y) the
\* override, set_override with a None argument and clear_override remove it,
\* and nothing else (a mouse move, start, stop, a read, a poll) changes it;
\* while an override is set every read of position and every poll returns
\* it, and without one they return the live position (the listener's last
\* position or the pointer's)
C22_OverrideUntilCleared ==
    [][/\ call'.op = "set_override" =>
            mt'.override_position =
                IF call'.x # None /\ call'.y # None
                THEN <<call'.x[1], call'.y[1]>> ELSE None
       /\ call'.op = "clear_override" => mt'.override_position = None
       /\ call'.op \notin {"set_override", "clear_override"} =>
            mt'.override_position = mt.override_position
       /\ call'.op \in {"position", "poll"} =>
            ret' \in (IF mt.override_position # None
                      THEN {mt.override_position}
                      ELSE {mt'.position, mt.pointer})]_vars

\* an override is in force, the mouse has moved since, and a read returned
\* the override
C22_Witness ==
    /\ call.op = "position"
    /\ mt.override_position = <<5, 0>>
    /\ ret = <<5, 0>>
    /\ mt.position = <<7, 2>>
    /\ mt.pointer = <<7, 2>>

\* C23: _transform_mouse takes the display's origin off the screen position,
\* scales the difference and takes the crop filter's left/top off the
\* product; the point is returned as it comes out, inside the source or not,
\* and the call raises nothing
C23_TransformMouse ==
    call.op = "transform_mouse" =>
        /\ raised = None
        /\ ret[1] + zc.source_info.crop_left * FU
              = (call.mouse_x - zc.source_info.display_x) * zc.source_info.scale_x
        /\ ret[2] + zc.source_info.crop_top * FU
              = (call.mouse_y - zc.source_info.display_y) * zc.source_info.scale_y

\* a mouse on a scaled display left of the primary one, transformed to a
\* point right of the source and above it
C23_Witness ==
    /\ call.op = "transform_mouse"
    /\ zc.source_info.scale_x = 2 * FU
    /\ zc.source_info.display_x < 0
    /\ call.mouse_x > 0
    /\ ret[1] > zc.source_info.width * FU
    /\ ret[2] < 0

\* C24: a run whose profile names an easing that is not registered goes
\* through exactly the states, and returns exactly the flags, of the run
\* given the same calls with the easing "linear"
C24_UnknownEasingIsLinear ==
    /\ zc.profile.easing \notin EasingNames
    /\ run2.zc.profile.easing = "linear"
    /\ [zc EXCEPT !.profile.easing = "linear"] = run2.zc
    /\ call.op = "update" => ret = run2.ret

\* part-way through a zoom-in under an unregistered name, the crop has left
\* the full frame
C24_Witness ==
    /\ zc.profile.easing = "ease-in-out"
    /\ call.op = "update"
    /\ zc.state = ZOOMING_IN
    /\ zc.animation_progress # DblZero
    /\ zc.crop_current # zc.crop_original
    /\ zc.crop_current # zc.crop_target

\* C25: every registered easing function returns 0 at t = 0 and 1 at t = 1,
\* exactly for the forms that go through neither sin, cos nor sqrt
C25_EasingEndpointsExact ==
    call.op = "ease" => B64Eq(ret, B64(call.t))

\* C26: a ZoomingIn tick that does not finish the animation recomputes the
\* target from the mouse position passed to update when auto_follow is on;
\* with auto_follow off the target stays what toggle_zoom computed, on such
\* ticks and on every other step that leaves the controller in ZoomingIn
C26_ZoomInRetargeting ==
    [][/\ (ZoomInTick /\ zc'.state = ZOOMING_IN /\ zc.profile.auto_follow) =>
            zc'.crop_target = calculate_target_crop(zc, call'.mouse_x, call'.mouse_y)
       /\ (zc.state = ZOOMING_IN /\ zc'.state = ZOOMING_IN /\ ~zc.profile.auto_follow) =>
            zc'.crop_target = zc.crop_target]_vars

\* mid-animation with auto_follow on, the target is the rectangle of the
\* mouse position of the last update and no longer the one toggle_zoom set
C26_Witness ==
    /\ zc.state = ZOOMING_IN
    /\ zc.profile.auto_follow
    /\ call.op = "update"
    /\ ticks >= 2
    /\ zc.crop_target = calculate_target_crop(zc, 10, 3)
    /\ zc.crop_target # calculate_target_crop(zc, 0, 1)

\* C27: after a ZoomingIn tick that does not finish the animation, x, y,
\* width and height of current are each lerp(original, target, t) for the
\* one t = easing(progress); under linear easing that is the fraction
\* progress of the way from original to target: after n ticks at zoom_speed
\* 1/k, n/k of the way (compared exactly where k divides the fixed-point unit)
C27_ZoomInInterpolation ==
    [][(ZoomInTick /\ zc'.state = ZOOMING_IN) =>
          /\ zc'.crop_current.x = lerp(zc'.crop_original.x, zc'.crop_target.x, EasedT(zc'))
          /\ zc'.crop_current.y = lerp(zc'.crop_original.y, zc'.crop_target.y, EasedT(zc'))
          /\ zc'.crop_current.width =
                lerp(zc'.crop_original.width, zc'.crop_target.width, EasedT(zc'))
          /\ zc'.crop_current.height =
                lerp(zc'.crop_original.height, zc'.crop_target.height, EasedT(zc'))
          /\ zc.profile.easing = "linear" =>
                \A f \in {"x", "y", "width", "height"} :
                    /\ zc'.crop_current[f] = zc'.crop_original[f]
                          + FMul(zc'.crop_target[f] - zc'.crop_original[f],
                                 DblToFix(zc'.animation_progress))
                    /\ FU % SpeedK = 0 =>
                          zc'.crop_current[f] = zc'.crop_original[f]
                              + RoundDiv((zc'.crop_target[f] - zc'.crop_original[f])
                                             * ticks', SpeedK)]_vars

\* two ticks into a three-tick linear zoom-in towards the bottom-right
\* corner, every field two thirds of the way
C27_Witness ==
    /\ zc.state = ZOOMING_IN
    /\ zc.profile.easing = "linear"
    /\ zc.profile.zoom_speed = DblInv(3)
    /\ ticks = 2
    /\ zc.crop_target = CropRect(4 * FU, 2 * FU, 4 * FU, 2 * FU)
    /\ zc.crop_current = CropRect(1600, 800, 3200, 1600)

\* the transformed mouse point (mouse_x, mouse_y) is within the dead-zone
\* around the locked centre: at most target.width * (0.5 - follow_border/100)
\* away in x and target.height * (0.5 - follow_border/100) in y
InDeadZone(c, mouse_x, mouse_y) ==
    LET target == calculate_target_crop(c, mouse_x, mouse_y)
        src == transform_mouse(c, mouse_x, mouse_y)
    IN  /\ 100 * Abs(src[1] - c.locked_center[1])
              <= target.width * (50 - c.profile.follow_border)
        /\ 100 * Abs(src[2] - c.locked_center[2])
              <= target.height * (50 - c.profile.follow_border)

\* an update tick taken in Following with the centre locked
LockedTick == zc.state = FOLLOWING /\ zc.locked_center # None /\ call'.op = "update"

\* C28: in Following with the centre locked, an update tick whose mouse point
\* is within the dead-zone returns False and changes nothing: not current,
\* not the lock state
C28_DeadZoneHolds ==
    [][(LockedTick /\ InDeadZone(zc, call'.mouse_x, call'.mouse_y)) =>
          /\ ret' = FALSE
          /\ zc' = zc]_vars

\* a Following tick with the centre locked whose mouse point is beyond the
\* dead-zone on some axis
LeavingTick ==
    /\ LockedTick
    /\ zc.is_following
    /\ ~InDeadZone(zc, call'.mouse_x, call'.mouse_y)

\* the transformed mouse point of the call being made, and its target
CallSrcNext == transform_mouse(zc, call'.mouse_x, call'.mouse_y)
CallTargetNext == calculate_target_crop(zc, call'.mouse_x, call'.mouse_y)

\* current is more than half a pixel from the rectangle r on some axis
FarFrom(r) ==
    \/ Abs(r.x - zc.crop_current.x) > FU \div 2
    \/ Abs(r.y - zc.crop_current.y) > FU \div 2

\* C29 (as stated): a Following tick that takes the mouse out of the
\* dead-zone ends with locked_center cleared, locked_last_pos the source
\* point and locked_last_diff the source point minus the old locked centre,
\* and has moved the crop towards the target
C29_LeavingClearsLock ==
    [][LeavingTick =>
          /\ zc'.locked_center = None
          /\ zc'.locked_last_pos = CallSrcNext
          /\ zc'.locked_last_diff = <<CallSrcNext[1] - zc.locked_center[1],
                                       CallSrcNext[2] - zc.locked_center[2]>>
          /\ zc'.crop_current # zc.crop_current]_vars

\* C29 (amended): such a tick, unless the bounds check skips it, records
\* locked_last_diff = source point - old locked centre; current takes one
\* interpolation step if it is more than half a pixel from the target and
\* stays otherwise; if current is then within follow_safezone_sensitivity of
\* the target on both axes the tick re-locks on current's centre with
\* locked_last_pos None, else it ends with locked_center None and
\* locked_last_pos the source point
C29_LeavingTick ==
    [][(/\ LeavingTick
        /\ zc.profile.follow_outside_bounds
              \/ ~OutsideTarget(zc, call'.mouse_x, call'.mouse_y)) =>
          /\ zc'.locked_last_diff = <<CallSrcNext[1] - zc.locked_center[1],
                                       CallSrcNext[2] - zc.locked_center[2]>>
          /\ ret' = FarFrom(CallTargetNext)
          /\ zc'.crop_current =
                IF FarFrom(CallTargetNext)
                THEN [zc.crop_current EXCEPT
                        !.x = lerp(zc.crop_current.x, CallTargetNext.x,
                                   zc.profile.follow_speed),
                        !.y = lerp(zc.crop_current.y, CallTargetNext.y,
                                   zc.profile.follow_speed)]
                ELSE zc.crop_current
          /\ IF /\ Abs(zc'.crop_current.x - CallTargetNext.x)
                       <= zc.profile.follow_safezone_sensitivity * FU
                 /\ Abs(zc'.crop_current.y - CallTargetNext.y)
                       <= zc.profile.follow_safezone_sensitivity * FU
             THEN /\ zc'.locked_center = Center(zc'.crop_current)
                  /\ zc'.locked_last_pos = None
             ELSE /\ zc'.locked_center = None
                  /\ zc'.locked_last_pos = CallSrcNext]_vars

\* the mouse has gone ten pixels right of the locked centre: the lock is
\* cleared, the exit recorded and the crop half-way to its target
C29_Witness ==
    /\ zc.state = FOLLOWING
    /\ call.op = "update"
    /\ call.mouse_x = 18
    /\ ret = TRUE
    /\ zc.locked_center = None
    /\ zc.locked_last_pos = <<18 * FU, 8 * FU>>
    /\ zc.locked_last_diff = <<10 * FU, 0>>
    /\ zc.crop_current.x = 5 * FU

\* an update tick taken in Following with no locked centre and not skipped
\* by the bounds check
UnlockedTick ==
    /\ zc.state = FOLLOWING
    /\ zc.is_following
    /\ zc.locked_center = None
    /\ call'.op = "update"
    /\ zc.profile.follow_outside_bounds
          \/ ~OutsideTarget(zc, call'.mouse_x, call'.mouse_y)

\* C30: an unlocked Following tick takes one interpolation step of x and y
\* towards the target, leaves width and height alone, and returns True only
\* if the crop position moved by more than half a pixel on some axis
C30_StepAndThreshold ==
    [][UnlockedTick =>
          /\ zc'.crop_current =
                [zc.crop_current EXCEPT
                   !.x = lerp(zc.crop_current.x, CallTargetNext.x,
                              zc.profile.follow_speed),
                   !.y = lerp(zc.crop_current.y, CallTargetNext.y,
                              zc.profile.follow_speed)]
          /\ ret' = TRUE =>
                \/ Abs(zc'.crop_current.x - zc.crop_current.x) > FU \div 2
                \/ Abs(zc'.crop_current.y - zc.crop_current.y) > FU \div 2]_vars

\* an unlocked Following tick taken mid-chase: locked_last_pos is set
ChaseTick == UnlockedTick /\ zc.locked_last_pos # None /\ last_tick # None

\* after the step, current is within follow_safezone_sensitivity of the
\* target on both axes
CloseEnough ==
    /\ Abs(zc'.crop_current.x - CallTargetNext.x)
          <= zc.profile.follow_safezone_sensitivity * FU
    /\ Abs(zc'.crop_current.y - CallTargetNext.y)
          <= zc.profile.follow_safezone_sensitivity * FU

\* the displacement of the cursor from the point from to this tick's source
\* point has, on the axis where locked_last_diff is larger, the sign opposite
\* to locked_last_diff
ReversedSince(from) ==
    /\ zc.locked_last_diff # None
    /\ IF Abs(zc.locked_last_diff[1]) > Abs(zc.locked_last_diff[2])
       THEN (CallSrcNext[1] - from[1]) * zc.locked_last_diff[1] < 0
       ELSE (CallSrcNext[2] - from[2]) * zc.locked_last_diff[2] < 0

\* C31: on a tick taken unlocked mid-chase the crop re-locks exactly when it
\* is then within the sensitivity of the target on both axes, or
\* auto_lock_on_reverse is set and the cursor's displacement since the
\* previous tick is opposite to locked_last_diff on its larger axis; a
\* re-lock sets locked_center to the centre of current and clears
\* locked_last_pos, otherwise locked_last_pos becomes the source point
C31_RelockRule ==
    [][ChaseTick =>
          /\ zc'.locked_center # None <=>
                \/ CloseEnough
                \/ zc.profile.auto_lock_on_reverse /\ ReversedSince(last_tick)
          /\ IF zc'.locked_center # None
             THEN /\ zc'.locked_center = Center(zc'.crop_current)
                  /\ zc'.locked_last_pos = None
             ELSE zc'.locked_last_pos = CallSrcNext]_vars

\* C32: in every reachable state of the controller, whatever the sequence of
\* toggle_zoom, toggle_follow, update, reset, set_source_info and profile
\* changes, the following flag is set exactly when the state is Following
C32_FollowingFlag == zc.is_following <=> zc.state = FOLLOWING

\* the profile has just been swapped while following
C32_Witness ==
    /\ call.op = "set_profile"
    /\ zc.state = FOLLOWING
    /\ zc.is_following

\* C33: whenever the state is Idle, current equals original in x, y, width
\* and height, after any sequence of toggle_zoom, toggle_follow, update,
\* reset and set_source_info
C33_IdleShowsOriginal == zc.state = IDLE => zc.crop_current = zc.crop_original

\* a zoom-out has just completed on a source that was replaced while zoomed
C33_Witness ==
    /\ zc.state = IDLE
    /\ call.op = "update"
    /\ ret = TRUE
    /\ zc.source_info.width = 4
    /\ zc.crop_current = CropRect(0, 0, 4 * FU, 4 * FU)

CeilInvSpeed ==
    LET k == CHOOSE n \in LiveKs : DblInv(n) = zc.profile.zoom_speed
    IN  IF DblLe(DblOne, DblMulExact(zc.profile.zoom_speed, k)) THEN k ELSE k + 1

\* an update tick taken while an animation runs
AnimationTick == ZoomInTick \/ ZoomOutTick

C36_TimerRunsOnceReturned ==
    (pc = Returned /\ zc.state # IDLE) => (is_timer_running /\ timer)

\* C37: locked_center and locked_last_pos are never both present
C37_OneLockFieldAtMost == zc.locked_center = None \/ zc.locked_last_pos = None

\* an update tick in Following has moved the crop (so it began with no lock)
\* and re-locked: locked_center is set again and locked_last_pos is cleared
C37_Witness ==
    /\ call.op = "update"
    /\ zc.state = FOLLOWING
    /\ on_state_changed = <<>>
    /\ ret = TRUE
    /\ zc.locked_center # None
    /\ zc.locked_last_pos = None

\* the crop position is within half a pixel of the target on both axes
Settled64 == ~far64(chase64)

\* C38: in Following with no lock and the mouse held still, the update ticks
\* reach a crop position within half a pixel of the target on both axes, and
\* from then on every tick returns False and leaves the position unchanged
C38_ChaseSettles ==
    /\ <>Settled64
    /\ [][Settled64 => (ret' = FALSE /\ chase64'.crop_current = chase64.crop_current)]_vars

\* neither lock field is present
NoLock(c) == c.locked_center = None /\ c.locked_last_pos = None

\* C39: a controller with neither locked_center nor locked_last_pos keeps both
\* absent on every step (every update tick in Following among them) other
\* than the update tick that completes a zoom-in with auto_follow on
C39_NoLockUntilAutoFollowZoomIn ==
    [][(NoLock(zc) /\ ~(ZoomInTick /\ zc.profile.auto_follow /\ zc'.state = FOLLOWING))
           => NoLock(zc')]_vars

\* an update tick in Following, entered by toggle_follow with auto_follow off,
\* has moved the crop and both lock fields are still absent
C39_Witness ==
    /\ call.op = "update"
    /\ zc.state = FOLLOWING
    /\ ~zc.profile.auto_follow
    /\ ret = TRUE
    /\ NoLock(zc)

\* C40: from the default configuration, add_profile, remove_profile and
\* set_default_profile keep the profile set non-empty and default_profile
\* naming one of the profiles; remove_profile returns False and changes
\* nothing for a name that is not there or for the only profile, and
\* set_default_profile returns False and changes nothing for a name that is
\* not there
C40_DefaultProfileExists ==
    /\ [](config.profiles # <<>> /\ config.default_profile \in profile_names(config))
    /\ [][(call'.op = "remove_profile"
             /\ (call'.name \notin profile_names(config) \/ Len(config.profiles) = 1))
           => (ret' = FALSE /\ config' = config)]_vars
    /\ [][(call'.op = "set_default_profile" /\ call'.name \notin profile_names(config))
           => (ret' = FALSE /\ config' = config)]_vars

\* remove_profile has removed the default profile 'standard' and the default
\* now names the first profile left
C40_Witness ==
    /\ call.op = "remove_profile"
    /\ call.name = "standard"
    /\ ret = TRUE
    /\ config.default_profile = config.profiles[1].name
    /\ config.default_profile # "standard"

====
